---- MODULE Spec2Model ----
(***************************************************************************)
(* The crowdfunding pool contract of src/src/lib.rs: the Contract          *)
(* aggregate and its six operations, each reading the wall clock.          *)
(*                                                                         *)
(* Amounts (u64 satoshi values) are counted in units of 2^62 satoshi, so   *)
(* the u64 range is 0 .. U64Modulus - 1 units and the arithmetic on        *)
(* multiples of the unit is exact, the wrap at 2^64 included.              *)
(* Proposal ids and vote counts are plain u64 counters far from 2^64.      *)
(***************************************************************************)
EXTENDS Integers, Sequences, FiniteSets, TLC

VARIABLES contract, now, call, overflow_checks, account_data, dispatch

vars == <<contract, now, call, overflow_checks, account_data, dispatch>>

(* ------------------------------ bounds --------------------------------- *)

\* The wall clock runs over 0 .. MaxTime.
MaxTime == 2

\* At most MaxProposals proposals are submitted in a run.
MaxProposals == 2

(* ------------------------------ inputs --------------------------------- *)

\* 2^64 in units of 2^62 satoshi: the range of a u64 amount.
U64Modulus == 4

Amounts == 0 .. (U64Modulus - 1)

Pubkeys == {"A", "B"}

\* Strings are sequences of characters.
Addresses == { <<"1", "A">>, <<"b", "c">>, <<>> }

Descriptions == { <<"d">> }

\* Proposal ids given to cast_vote: no proposal has id 0.
ProposalIds == 0 .. MaxProposals

\* The account lists given to execute_transfer, by the keys of the accounts.
AccountLists == { <<>>, <<"payer">> }

\* Option<T>: None, or Some(x).
None == <<>>

Some(x) == <<x>>

PoolParams(min, max, cd, vd, pt, vt, q) ==
    [min_contribution |-> min, max_contribution |-> max,
     contribution_deadline |-> cd, voting_deadline |-> vd,
     proposal_threshold |-> pt, voting_threshold |-> vt,
     quorum_percentage |-> q]

\* Parameters satisfying the declared invariants.
ValidParams ==
    { PoolParams(1, 2, 0, 1, 2, 1, 60),
      PoolParams(0, 1, 0, 1, 0, 0, 100),
      PoolParams(1, 3, 0, 1, 1, 1, 50) }

\* Parameters breaking one declared invariant each.
InvalidParams ==
    { PoolParams(2, 2, 0, 1, 2, 1, 60),
      PoolParams(1, 2, 1, 1, 2, 1, 60),
      PoolParams(1, 2, 0, 1, 2, 1, 101) }

ParamsInputs == ValidParams \cup InvalidParams

(* ------------------------------ state ---------------------------------- *)

PoolState == <<"Uninitialized", "ContributionPhase", "VotingPhase",
               "ExecutionPhase", "Completed">>

\* The ordinal of a phase tag among the five named states.
Ordinal(s) == CHOOSE i \in 1..Len(PoolState) : PoolState[i] = s

\* The empty HashMap.
EmptyMap == [k \in {} |-> 0]

\* Contract::default()
Default ==
    [state |-> "Uninitialized",
     params |-> None,
     total_balance |-> 0,
     contributions |-> EmptyMap,
     proposals |-> EmptyMap,
     votes |-> EmptyMap,
     next_proposal_id |-> 1,
     winning_proposal |-> None,
     transfer_executed |-> FALSE]

\* HashMap::insert
Insert(map, k, v) == [x \in DOMAIN map \cup {k} |-> IF x = k THEN v ELSE map[x]]

\* HashMap::remove
Remove(map, k) == [x \in DOMAIN map \ {k} |-> map[x]]

\* self.contributions.get(&k).unwrap_or(&0)
GetOr0(map, k) == IF k \in DOMAIN map THEN map[k] ELSE 0

\* The result of a call: the aggregate it leaves, Ok or the error, the value.
Ok(self, v) == [c |-> self, res |-> "Ok", val |-> v]

Err(self, e) == [c |-> self, res |-> e, val |-> 0]

\* An arithmetic overflow in a build with overflow checks: the call panics
\* and never returns; the invocation is aborted with the aggregate as loaded.
Panic(self) == [c |-> self, res |-> "Panic", val |-> 0]

(* ---------------------------- operations ------------------------------- *)

\* Mutant of initialize_pool: the parameters are stored before they are
\* validated.
initialize_pool_store_before_validation(self, params) ==
    IF self.state # "Uninitialized" THEN Err(self, "PoolAlreadyInitialized")
    ELSE LET s1 == [self EXCEPT !.params = Some(params)] IN
    IF params.min_contribution >= params.max_contribution
    THEN Err(s1, "ContributionTooLow")
    ELSE IF params.contribution_deadline >= params.voting_deadline
    THEN Err(s1, "PoolDeadlinePassed")
    ELSE IF params.quorum_percentage > 100
    THEN Err(s1, "QuorumNotReached")
    ELSE Ok([s1 EXCEPT !.state = "ContributionPhase"], 0)

\* Mutant of initialize_pool: the phase is not checked, so a second call
\* stores new parameters and resets the phase.
initialize_pool_without_phase_check(self, params) ==
    IF params.min_contribution >= params.max_contribution
    THEN Err(self, "ContributionTooLow")
    ELSE IF params.contribution_deadline >= params.voting_deadline
    THEN Err(self, "PoolDeadlinePassed")
    ELSE IF params.quorum_percentage > 100
    THEN Err(self, "QuorumNotReached")
    ELSE Ok([self EXCEPT !.params = Some(params),
                         !.state = "ContributionPhase"], 0)

\* Contract::initialize_pool
initialize_pool(self, params) ==
    IF self.state # "Uninitialized" THEN Err(self, "PoolAlreadyInitialized")
    ELSE IF params.min_contribution >= params.max_contribution
    THEN Err(self, "ContributionTooLow")
    ELSE IF params.contribution_deadline >= params.voting_deadline
    THEN Err(self, "PoolDeadlinePassed")
    ELSE IF params.quorum_percentage > 100
    THEN Err(self, "QuorumNotReached")
    ELSE Ok([self EXCEPT !.params = Some(params),
                         !.state = "ContributionPhase"], 0)

\* Mutant of contribute: a call after the contribution deadline is rejected
\* without advancing the phase.
contribute_without_phase_advance(self, contributor, amount, t, checks) ==
    IF self.params = None THEN Err(self, "PoolNotInitialized")
    ELSE LET params == self.params[1] IN
    IF self.state # "ContributionPhase" THEN Err(self, "PoolDeadlinePassed")
    ELSE IF t > params.contribution_deadline
    THEN Err(self, "PoolDeadlinePassed")
    ELSE IF amount < params.min_contribution
    THEN Err(self, "ContributionTooLow")
    ELSE IF amount > params.max_contribution
    THEN Err(self, "ContributionTooHigh")
    ELSE LET current_contribution == GetOr0(self.contributions, contributor)
             sum == current_contribution + amount
             new_total == sum % U64Modulus
             balance == self.total_balance + amount
         IN
         IF sum >= U64Modulus /\ checks THEN Panic(self)
         ELSE IF new_total > params.max_contribution
         THEN Err(self, "ContributionTooHigh")
         ELSE IF balance >= U64Modulus /\ checks THEN Panic(self)
         ELSE Ok([self EXCEPT
                    !.contributions = Insert(@, contributor, new_total),
                    !.total_balance = balance % U64Modulus], 0)

\* Mutant of contribute: a call at the contribution deadline itself
\* already advances the phase.
contribute_deadline_inclusive(self, contributor, amount, t, checks) ==
    IF self.params = None THEN Err(self, "PoolNotInitialized")
    ELSE LET params == self.params[1] IN
    IF self.state # "ContributionPhase" THEN Err(self, "PoolDeadlinePassed")
    ELSE IF t >= params.contribution_deadline
    THEN Err([self EXCEPT !.state = "VotingPhase"], "PoolDeadlinePassed")
    ELSE IF amount < params.min_contribution
    THEN Err(self, "ContributionTooLow")
    ELSE IF amount > params.max_contribution
    THEN Err(self, "ContributionTooHigh")
    ELSE LET current_contribution == GetOr0(self.contributions, contributor)
             sum == current_contribution + amount
             new_total == sum % U64Modulus
             balance == self.total_balance + amount
         IN
         IF sum >= U64Modulus /\ checks THEN Panic(self)
         ELSE IF new_total > params.max_contribution
         THEN Err(self, "ContributionTooHigh")
         ELSE IF balance >= U64Modulus /\ checks THEN Panic(self)
         ELSE Ok([self EXCEPT
                    !.contributions = Insert(@, contributor, new_total),
                    !.total_balance = balance % U64Modulus], 0)

\* Mutant of contribute: the pledge is stored before the cumulative total is
\* compared with max_contribution.
contribute_insert_before_cap(self, contributor, amount, t, checks) ==
    IF self.params = None THEN Err(self, "PoolNotInitialized")
    ELSE LET params == self.params[1] IN
    IF self.state # "ContributionPhase" THEN Err(self, "PoolDeadlinePassed")
    ELSE IF t > params.contribution_deadline
    THEN Err([self EXCEPT !.state = "VotingPhase"], "PoolDeadlinePassed")
    ELSE IF amount < params.min_contribution
    THEN Err(self, "ContributionTooLow")
    ELSE IF amount > params.max_contribution
    THEN Err(self, "ContributionTooHigh")
    ELSE LET current_contribution == GetOr0(self.contributions, contributor)
             sum == current_contribution + amount
             new_total == sum % U64Modulus
             balance == self.total_balance + amount
         IN
         IF sum >= U64Modulus /\ checks THEN Panic(self)
         ELSE IF new_total > params.max_contribution
         THEN Err([self EXCEPT
                     !.contributions = Insert(@, contributor, new_total)],
                  "ContributionTooHigh")
         ELSE IF balance >= U64Modulus /\ checks THEN Panic(self)
         ELSE Ok([self EXCEPT
                    !.contributions = Insert(@, contributor, new_total),
                    !.total_balance = balance % U64Modulus], 0)

\* Contract::contribute; t is the reading of Utc::now(), checks tells
\* whether the build panics on arithmetic overflow (it wraps otherwise).
contribute(self, contributor, amount, t, checks) ==
    IF self.params = None THEN Err(self, "PoolNotInitialized")
    ELSE LET params == self.params[1] IN
    IF self.state # "ContributionPhase" THEN Err(self, "PoolDeadlinePassed")
    ELSE IF t > params.contribution_deadline
    THEN Err([self EXCEPT !.state = "VotingPhase"], "PoolDeadlinePassed")
    ELSE IF amount < params.min_contribution
    THEN Err(self, "ContributionTooLow")
    ELSE IF amount > params.max_contribution
    THEN Err(self, "ContributionTooHigh")
    ELSE LET current_contribution == GetOr0(self.contributions, contributor)
             sum == current_contribution + amount
             new_total == sum % U64Modulus
             balance == self.total_balance + amount
         IN
         IF sum >= U64Modulus /\ checks THEN Panic(self)
         ELSE IF new_total > params.max_contribution
         THEN Err(self, "ContributionTooHigh")
         ELSE IF balance >= U64Modulus /\ checks THEN Panic(self)
         ELSE Ok([self EXCEPT
                    !.contributions = Insert(@, contributor, new_total),
                    !.total_balance = balance % U64Modulus], 0)

\* starts_with on strings
starts_with(s, prefix) ==
    /\ Len(s) >= Len(prefix)
    /\ SubSeq(s, 1, Len(prefix)) = prefix

\* is_valid_bitcoin_address
is_valid_bitcoin_address(address) ==
    \/ starts_with(address, <<"1">>)
    \/ starts_with(address, <<"3">>)
    \/ starts_with(address, <<"b", "c", "1">>)

\* Mutant of submit_proposal: the voting deadline is compared with the
\* clock only when the stored phase is not VotingPhase.
submit_proposal_gated_voting_deadline(self, proposer, bitcoin_address, description, t1, t2) ==
    IF self.params = None THEN Err(self, "PoolNotInitialized")
    ELSE LET params == self.params[1] IN
    IF self.state # "VotingPhase" /\ ~(t1 > params.contribution_deadline)
    THEN Err(self, "PoolDeadlinePassed")
    ELSE LET s1 == [self EXCEPT !.state = "VotingPhase"] IN
    IF self.state # "VotingPhase" /\ t2 > params.voting_deadline
    THEN Err([s1 EXCEPT !.state = "ExecutionPhase"], "VotingPeriodEnded")
    ELSE IF GetOr0(s1.contributions, proposer) < params.proposal_threshold
    THEN Err(s1, "InsufficientContributionForProposal")
    ELSE IF ~is_valid_bitcoin_address(bitcoin_address)
    THEN Err(s1, "InvalidBitcoinAddress")
    ELSE LET proposal_id == s1.next_proposal_id
             proposal == [id |-> proposal_id,
                          proposer |-> proposer,
                          bitcoin_address |-> bitcoin_address,
                          description |-> description,
                          votes |-> 0]
         IN Ok([s1 EXCEPT !.next_proposal_id = @ + 1,
                          !.proposals = Insert(@, proposal_id, proposal)],
               proposal_id)

\* Mutant of submit_proposal: a pledge equal to proposal_threshold is
\* rejected.
submit_proposal_threshold_exclusive(self, proposer, bitcoin_address, description, t1, t2) ==
    IF self.params = None THEN Err(self, "PoolNotInitialized")
    ELSE LET params == self.params[1] IN
    IF self.state # "VotingPhase" /\ ~(t1 > params.contribution_deadline)
    THEN Err(self, "PoolDeadlinePassed")
    ELSE LET s1 == [self EXCEPT !.state = "VotingPhase"] IN
    IF t2 > params.voting_deadline
    THEN Err([s1 EXCEPT !.state = "ExecutionPhase"], "VotingPeriodEnded")
    ELSE IF GetOr0(s1.contributions, proposer) <= params.proposal_threshold
    THEN Err(s1, "InsufficientContributionForProposal")
    ELSE IF ~is_valid_bitcoin_address(bitcoin_address)
    THEN Err(s1, "InvalidBitcoinAddress")
    ELSE LET proposal_id == s1.next_proposal_id
             proposal == [id |-> proposal_id,
                          proposer |-> proposer,
                          bitcoin_address |-> bitcoin_address,
                          description |-> description,
                          votes |-> 0]
         IN Ok([s1 EXCEPT !.next_proposal_id = @ + 1,
                          !.proposals = Insert(@, proposal_id, proposal)],
               proposal_id)

\* Mutant of submit_proposal: the id is taken before the address is
\* validated.
submit_proposal_id_before_validation(self, proposer, bitcoin_address, description, t1, t2) ==
    IF self.params = None THEN Err(self, "PoolNotInitialized")
    ELSE LET params == self.params[1] IN
    IF self.state # "VotingPhase" /\ ~(t1 > params.contribution_deadline)
    THEN Err(self, "PoolDeadlinePassed")
    ELSE LET s1 == [self EXCEPT !.state = "VotingPhase"] IN
    IF t2 > params.voting_deadline
    THEN Err([s1 EXCEPT !.state = "ExecutionPhase"], "VotingPeriodEnded")
    ELSE IF GetOr0(s1.contributions, proposer) < params.proposal_threshold
    THEN Err(s1, "InsufficientContributionForProposal")
    ELSE IF ~is_valid_bitcoin_address(bitcoin_address)
    THEN Err([s1 EXCEPT !.next_proposal_id = @ + 1], "InvalidBitcoinAddress")
    ELSE LET proposal_id == s1.next_proposal_id
             proposal == [id |-> proposal_id,
                          proposer |-> proposer,
                          bitcoin_address |-> bitcoin_address,
                          description |-> description,
                          votes |-> 0]
         IN Ok([s1 EXCEPT !.next_proposal_id = @ + 1,
                          !.proposals = Insert(@, proposal_id, proposal)],
               proposal_id)

\* Contract::submit_proposal; t1 and t2 are the two readings of Utc::now().
submit_proposal(self, proposer, bitcoin_address, description, t1, t2) ==
    IF self.params = None THEN Err(self, "PoolNotInitialized")
    ELSE LET params == self.params[1] IN
    IF self.state # "VotingPhase" /\ ~(t1 > params.contribution_deadline)
    THEN Err(self, "PoolDeadlinePassed")
    ELSE LET s1 == [self EXCEPT !.state = "VotingPhase"] IN
    IF t2 > params.voting_deadline
    THEN Err([s1 EXCEPT !.state = "ExecutionPhase"], "VotingPeriodEnded")
    ELSE IF GetOr0(s1.contributions, proposer) < params.proposal_threshold
    THEN Err(s1, "InsufficientContributionForProposal")
    ELSE IF ~is_valid_bitcoin_address(bitcoin_address)
    THEN Err(s1, "InvalidBitcoinAddress")
    ELSE LET proposal_id == s1.next_proposal_id
             proposal == [id |-> proposal_id,
                          proposer |-> proposer,
                          bitcoin_address |-> bitcoin_address,
                          description |-> description,
                          votes |-> 0]
         IN Ok([s1 EXCEPT !.next_proposal_id = @ + 1,
                          !.proposals = Insert(@, proposal_id, proposal)],
               proposal_id)

\* Mutant of cast_vote: a call within the voting window does not set the
\* phase to VotingPhase.
cast_vote_without_phase_advance(self, voter, proposal_id, t) ==
    IF self.params = None THEN Err(self, "PoolNotInitialized")
    ELSE LET params == self.params[1]
             gated == self.state # "VotingPhase"
         IN
    IF gated /\ ~(t > params.contribution_deadline /\ t <= params.voting_deadline)
    THEN IF t > params.voting_deadline
         THEN Err([self EXCEPT !.state = "ExecutionPhase"], "VotingPeriodEnded")
         ELSE Err(self, "PoolDeadlinePassed")
    ELSE LET s1 == self IN
    IF GetOr0(s1.contributions, voter) < params.voting_threshold
    THEN Err(s1, "InsufficientContributionForVoting")
    ELSE IF proposal_id \notin DOMAIN s1.proposals
    THEN Err(s1, "ProposalNotFound")
    ELSE IF voter \in DOMAIN s1.votes
    THEN Err(s1, "AlreadyVoted")
    ELSE Ok([s1 EXCEPT !.votes = Insert(@, voter, proposal_id),
                       !.proposals[proposal_id].votes = @ + 1], 0)

\* Mutant of cast_vote: the votes mapping is not consulted before the vote
\* is recorded.
cast_vote_without_voted_check(self, voter, proposal_id, t) ==
    IF self.params = None THEN Err(self, "PoolNotInitialized")
    ELSE LET params == self.params[1]
             gated == self.state # "VotingPhase"
         IN
    IF gated /\ ~(t > params.contribution_deadline /\ t <= params.voting_deadline)
    THEN IF t > params.voting_deadline
         THEN Err([self EXCEPT !.state = "ExecutionPhase"], "VotingPeriodEnded")
         ELSE Err(self, "PoolDeadlinePassed")
    ELSE LET s1 == [self EXCEPT !.state = "VotingPhase"] IN
    IF GetOr0(s1.contributions, voter) < params.voting_threshold
    THEN Err(s1, "InsufficientContributionForVoting")
    ELSE IF proposal_id \notin DOMAIN s1.proposals
    THEN Err(s1, "ProposalNotFound")
    ELSE Ok([s1 EXCEPT !.votes = Insert(@, voter, proposal_id),
                       !.proposals[proposal_id].votes = @ + 1], 0)

\* Mutant of cast_vote: the vote count grows by the voter's pledge.
cast_vote_weighted_by_pledge(self, voter, proposal_id, t) ==
    IF self.params = None THEN Err(self, "PoolNotInitialized")
    ELSE LET params == self.params[1]
             gated == self.state # "VotingPhase"
         IN
    IF gated /\ ~(t > params.contribution_deadline /\ t <= params.voting_deadline)
    THEN IF t > params.voting_deadline
         THEN Err([self EXCEPT !.state = "ExecutionPhase"], "VotingPeriodEnded")
         ELSE Err(self, "PoolDeadlinePassed")
    ELSE LET s1 == [self EXCEPT !.state = "VotingPhase"] IN
    IF GetOr0(s1.contributions, voter) < params.voting_threshold
    THEN Err(s1, "InsufficientContributionForVoting")
    ELSE IF proposal_id \notin DOMAIN s1.proposals
    THEN Err(s1, "ProposalNotFound")
    ELSE IF voter \in DOMAIN s1.votes
    THEN Err(s1, "AlreadyVoted")
    ELSE Ok([s1 EXCEPT !.votes = Insert(@, voter, proposal_id),
                       !.proposals[proposal_id].votes =
                           @ + GetOr0(s1.contributions, voter)], 0)

\* Mutant of cast_vote: the clock is consulted only while the stored phase
\* is ContributionPhase; in every later phase the vote goes on to its checks.
cast_vote_gated_on_contribution_phase(self, voter, proposal_id, t) ==
    IF self.params = None THEN Err(self, "PoolNotInitialized")
    ELSE LET params == self.params[1]
             gated == self.state = "ContributionPhase"
         IN
    IF gated /\ ~(t > params.contribution_deadline /\ t <= params.voting_deadline)
    THEN IF t > params.voting_deadline
         THEN Err([self EXCEPT !.state = "ExecutionPhase"], "VotingPeriodEnded")
         ELSE Err(self, "PoolDeadlinePassed")
    ELSE LET s1 == IF gated THEN [self EXCEPT !.state = "VotingPhase"]
                   ELSE self IN
    IF GetOr0(s1.contributions, voter) < params.voting_threshold
    THEN Err(s1, "InsufficientContributionForVoting")
    ELSE IF proposal_id \notin DOMAIN s1.proposals
    THEN Err(s1, "ProposalNotFound")
    ELSE IF voter \in DOMAIN s1.votes
    THEN Err(s1, "AlreadyVoted")
    ELSE Ok([s1 EXCEPT !.votes = Insert(@, voter, proposal_id),
                       !.proposals[proposal_id].votes = @ + 1], 0)

\* Mutant of cast_vote: the vote is recorded but the proposal's vote count
\* is not incremented.
cast_vote_without_count(self, voter, proposal_id, t) ==
    IF self.params = None THEN Err(self, "PoolNotInitialized")
    ELSE LET params == self.params[1]
             gated == self.state # "VotingPhase"
         IN
    IF gated /\ ~(t > params.contribution_deadline /\ t <= params.voting_deadline)
    THEN IF t > params.voting_deadline
         THEN Err([self EXCEPT !.state = "ExecutionPhase"], "VotingPeriodEnded")
         ELSE Err(self, "PoolDeadlinePassed")
    ELSE LET s1 == [self EXCEPT !.state = "VotingPhase"] IN
    IF GetOr0(s1.contributions, voter) < params.voting_threshold
    THEN Err(s1, "InsufficientContributionForVoting")
    ELSE IF proposal_id \notin DOMAIN s1.proposals
    THEN Err(s1, "ProposalNotFound")
    ELSE IF voter \in DOMAIN s1.votes
    THEN Err(s1, "AlreadyVoted")
    ELSE Ok([s1 EXCEPT !.votes = Insert(@, voter, proposal_id)], 0)

\* Contract::cast_vote; t is the reading of Utc::now(), taken only when the
\* stored phase is not VotingPhase.
cast_vote(self, voter, proposal_id, t) ==
    IF self.params = None THEN Err(self, "PoolNotInitialized")
    ELSE LET params == self.params[1]
             gated == self.state # "VotingPhase"
         IN
    IF gated /\ ~(t > params.contribution_deadline /\ t <= params.voting_deadline)
    THEN IF t > params.voting_deadline
         THEN Err([self EXCEPT !.state = "ExecutionPhase"], "VotingPeriodEnded")
         ELSE Err(self, "PoolDeadlinePassed")
    ELSE LET s1 == [self EXCEPT !.state = "VotingPhase"] IN
    IF GetOr0(s1.contributions, voter) < params.voting_threshold
    THEN Err(s1, "InsufficientContributionForVoting")
    ELSE IF proposal_id \notin DOMAIN s1.proposals
    THEN Err(s1, "ProposalNotFound")
    ELSE IF voter \in DOMAIN s1.votes
    THEN Err(s1, "AlreadyVoted")
    ELSE Ok([s1 EXCEPT !.votes = Insert(@, voter, proposal_id),
                       !.proposals[proposal_id].votes = @ + 1], 0)

\* Mutant of quorum_not_reached: a ratio equal to the quorum is rejected too.
quorum_not_reached_inclusive(total_voters, total_contributors, quorum_percentage) ==
    IF total_contributors = 0 THEN FALSE
    ELSE total_voters * 100 <= total_contributors * quorum_percentage

\* (total_voters / total_contributors) < quorum_percentage / 100.0 on f64.
\* Both quotients are correctly rounded and, for counts far below 2^53, two
\* different exact quotients never round to the same f64, so the comparison
\* is the exact one. With no contributor the quotient is +infinity (NaN
\* for no voter either), which is less than nothing.
quorum_not_reached(total_voters, total_contributors, quorum_percentage) ==
    IF total_contributors = 0 THEN FALSE
    ELSE total_voters * 100 < total_contributors * quorum_percentage

\* Mutant of find_winner: vote counts are not compared, the last proposal
\* visited is kept.
find_winner_last_visited(proposals, order, winning_proposal_id, max_votes) ==
    IF order = <<>> THEN winning_proposal_id ELSE order[Len(order)]

\* The loop over &self.proposals, visiting the ids in the sequence order.
RECURSIVE find_winner(_, _, _, _)
find_winner(proposals, order, winning_proposal_id, max_votes) ==
    IF order = <<>> THEN winning_proposal_id
    ELSE LET id == Head(order) IN
         IF proposals[id].votes > max_votes
         THEN find_winner(proposals, Tail(order), id, proposals[id].votes)
         ELSE find_winner(proposals, Tail(order), winning_proposal_id, max_votes)

\* next_account_info on a fresh iterator over accounts
next_account_info(accounts) ==
    IF accounts = <<>> THEN None ELSE Some(Head(accounts))

\* Mutant of mark_executed: the stored parameters are cleared when the
\* transfer is marked as executed.
mark_executed_clearing_params(self, winning_proposal_id) ==
    [self EXCEPT !.winning_proposal = Some(winning_proposal_id),
                 !.transfer_executed = TRUE,
                 !.state = "Completed",
                 !.params = None]

\* Mutant of mark_executed: the transfer_executed flag is not set.
mark_executed_without_flag(self, winning_proposal_id) ==
    [self EXCEPT !.winning_proposal = Some(winning_proposal_id),
                 !.state = "Completed"]

\* "Mark as executed" in execute_transfer
mark_executed(self, winning_proposal_id) ==
    [self EXCEPT !.winning_proposal = Some(winning_proposal_id),
                 !.transfer_executed = TRUE,
                 !.state = "Completed"]

\* Mutant of execute_transfer: transfer_executed is not checked.
execute_transfer_without_executed_check(self, accounts, t, order) ==
    IF self.params = None THEN Err(self, "PoolNotInitialized")
    ELSE LET params == self.params[1] IN
    IF self.state # "ExecutionPhase" /\ t <= params.voting_deadline
    THEN Err(self, "VotingPeriodNotEnded")
    ELSE LET s1 == [self EXCEPT !.state = "ExecutionPhase"] IN
    IF DOMAIN s1.proposals = {} THEN Err(s1, "NoProposalsSubmitted")
    ELSE IF DOMAIN s1.votes = {} THEN Err(s1, "NoVotesCast")
    ELSE IF quorum_not_reached(Cardinality(DOMAIN s1.votes),
                               Cardinality(DOMAIN s1.contributions),
                               params.quorum_percentage)
    THEN Err(s1, "QuorumNotReached")
    ELSE LET winning_proposal_id == find_winner(s1.proposals, order, 0, 0) IN
    IF winning_proposal_id = 0 THEN Err(s1, "NoVotesCast")
    ELSE IF winning_proposal_id \notin DOMAIN s1.proposals
    THEN Err(s1, "ProposalNotFound")
    ELSE IF next_account_info(accounts) = None
    THEN Err(s1, "NotEnoughAccountKeys")
    ELSE Ok(mark_executed(s1, winning_proposal_id), 0)

\* Mutant of execute_transfer: the votes mapping is tested before the
\* proposals mapping.
execute_transfer_votes_before_proposals(self, accounts, t, order) ==
    IF self.params = None THEN Err(self, "PoolNotInitialized")
    ELSE LET params == self.params[1] IN
    IF self.state # "ExecutionPhase" /\ t <= params.voting_deadline
    THEN Err(self, "VotingPeriodNotEnded")
    ELSE LET s1 == [self EXCEPT !.state = "ExecutionPhase"] IN
    IF s1.transfer_executed THEN Err(s1, "TransferAlreadyExecuted")
    ELSE IF DOMAIN s1.votes = {} THEN Err(s1, "NoVotesCast")
    ELSE IF DOMAIN s1.proposals = {} THEN Err(s1, "NoProposalsSubmitted")
    ELSE IF quorum_not_reached(Cardinality(DOMAIN s1.votes),
                               Cardinality(DOMAIN s1.contributions),
                               params.quorum_percentage)
    THEN Err(s1, "QuorumNotReached")
    ELSE LET winning_proposal_id == find_winner(s1.proposals, order, 0, 0) IN
    IF winning_proposal_id = 0 THEN Err(s1, "NoVotesCast")
    ELSE IF winning_proposal_id \notin DOMAIN s1.proposals
    THEN Err(s1, "ProposalNotFound")
    ELSE IF next_account_info(accounts) = None
    THEN Err(s1, "NotEnoughAccountKeys")
    ELSE Ok(mark_executed(s1, winning_proposal_id), 0)

\* Mutant of execute_transfer: the voting deadline is not compared with the
\* clock.
execute_transfer_without_deadline_check(self, accounts, t, order) ==
    IF self.params = None THEN Err(self, "PoolNotInitialized")
    ELSE LET params == self.params[1] IN
    LET s1 == [self EXCEPT !.state = "ExecutionPhase"] IN
    IF s1.transfer_executed THEN Err(s1, "TransferAlreadyExecuted")
    ELSE IF DOMAIN s1.proposals = {} THEN Err(s1, "NoProposalsSubmitted")
    ELSE IF DOMAIN s1.votes = {} THEN Err(s1, "NoVotesCast")
    ELSE IF quorum_not_reached(Cardinality(DOMAIN s1.votes),
                               Cardinality(DOMAIN s1.contributions),
                               params.quorum_percentage)
    THEN Err(s1, "QuorumNotReached")
    ELSE LET winning_proposal_id == find_winner(s1.proposals, order, 0, 0) IN
    IF winning_proposal_id = 0 THEN Err(s1, "NoVotesCast")
    ELSE IF winning_proposal_id \notin DOMAIN s1.proposals
    THEN Err(s1, "ProposalNotFound")
    ELSE IF next_account_info(accounts) = None
    THEN Err(s1, "NotEnoughAccountKeys")
    ELSE Ok(mark_executed(s1, winning_proposal_id), 0)

\* Mutant of execute_transfer: the phase is set to ExecutionPhase only by a
\* call that succeeds, on its way to Completed.
execute_transfer_without_phase_advance(self, accounts, t, order) ==
    IF self.params = None THEN Err(self, "PoolNotInitialized")
    ELSE LET params == self.params[1] IN
    IF self.state # "ExecutionPhase" /\ t <= params.voting_deadline
    THEN Err(self, "VotingPeriodNotEnded")
    ELSE IF self.transfer_executed THEN Err(self, "TransferAlreadyExecuted")
    ELSE IF DOMAIN self.proposals = {} THEN Err(self, "NoProposalsSubmitted")
    ELSE IF DOMAIN self.votes = {} THEN Err(self, "NoVotesCast")
    ELSE IF quorum_not_reached(Cardinality(DOMAIN self.votes),
                               Cardinality(DOMAIN self.contributions),
                               params.quorum_percentage)
    THEN Err(self, "QuorumNotReached")
    ELSE LET winning_proposal_id == find_winner(self.proposals, order, 0, 0) IN
    IF winning_proposal_id = 0 THEN Err(self, "NoVotesCast")
    ELSE IF winning_proposal_id \notin DOMAIN self.proposals
    THEN Err(self, "ProposalNotFound")
    ELSE IF next_account_info(accounts) = None
    THEN Err(self, "NotEnoughAccountKeys")
    ELSE Ok(mark_executed(self, winning_proposal_id), 0)

\* Contract::execute_transfer; t is the reading of Utc::now(), order the
\* iteration order of the proposals HashMap in this run. The payment-network
\* collaborators and add_state_transition of src/arch_program always return Ok.
execute_transfer(self, accounts, t, order) ==
    IF self.params = None THEN Err(self, "PoolNotInitialized")
    ELSE LET params == self.params[1] IN
    IF self.state # "ExecutionPhase" /\ t <= params.voting_deadline
    THEN Err(self, "VotingPeriodNotEnded")
    ELSE LET s1 == [self EXCEPT !.state = "ExecutionPhase"] IN
    IF s1.transfer_executed THEN Err(s1, "TransferAlreadyExecuted")
    ELSE IF DOMAIN s1.proposals = {} THEN Err(s1, "NoProposalsSubmitted")
    ELSE IF DOMAIN s1.votes = {} THEN Err(s1, "NoVotesCast")
    ELSE IF quorum_not_reached(Cardinality(DOMAIN s1.votes),
                               Cardinality(DOMAIN s1.contributions),
                               params.quorum_percentage)
    THEN Err(s1, "QuorumNotReached")
    ELSE LET winning_proposal_id == find_winner(s1.proposals, order, 0, 0) IN
    IF winning_proposal_id = 0 THEN Err(s1, "NoVotesCast")
    ELSE IF winning_proposal_id \notin DOMAIN s1.proposals
    THEN Err(s1, "ProposalNotFound")
    ELSE IF next_account_info(accounts) = None
    THEN Err(s1, "NotEnoughAccountKeys")
    ELSE Ok(mark_executed(s1, winning_proposal_id), 0)

\* Mutant of emergency_withdraw: a withdrawal is also allowed while the
\* stored phase is VotingPhase.
emergency_withdraw_in_voting_phase(self, contributor, checks) ==
    IF self.params = None THEN Err(self, "PoolNotInitialized")
    ELSE IF self.state \notin {"ContributionPhase", "VotingPhase"}
    THEN Err(self, "PoolDeadlinePassed")
    ELSE IF contributor \notin DOMAIN self.contributions
    THEN Err(self, "ContributorNotFound")
    ELSE LET amount == self.contributions[contributor] IN
         IF self.total_balance < amount /\ checks THEN Panic(self)
         ELSE Ok([self EXCEPT
                    !.contributions = Remove(@, contributor),
                    !.total_balance =
                        (@ + U64Modulus - amount) % U64Modulus], amount)

\* Contract::emergency_withdraw
emergency_withdraw(self, contributor, checks) ==
    IF self.params = None THEN Err(self, "PoolNotInitialized")
    ELSE IF self.state # "ContributionPhase" THEN Err(self, "PoolDeadlinePassed")
    ELSE IF contributor \notin DOMAIN self.contributions
    THEN Err(self, "ContributorNotFound")
    ELSE LET amount == self.contributions[contributor] IN
         IF self.total_balance < amount /\ checks THEN Panic(self)
         ELSE Ok([self EXCEPT
                    !.contributions = Remove(@, contributor),
                    !.total_balance =
                        (@ + U64Modulus - amount) % U64Modulus], amount)

\* The orders in which a HashMap with key set S can be iterated.
IterationOrders(S) ==
    { o \in [1 .. Cardinality(S) -> S] :
        \A i, j \in 1 .. Cardinality(S) : i # j => o[i] # o[j] }

(* ------------------------------ encoding ------------------------------- *)

\* The result of reading a value off the front of a byte buffer: whether
\* the read succeeded, the value, and the bytes left.
Read(val, rest) == [ok |-> TRUE, val |-> val, rest |-> rest]

Fail == [ok |-> FALSE, val |-> 0, rest |-> <<>>]

\* The element of a set of one element: {e : x \in {v}} evaluates v once,
\* as a let binding of the source does.
Only(S) == CHOOSE x \in S : TRUE

RECURSIVE read_fields(_, _, _)
RECURSIVE read_value(_, _)

\* buf[n..]
Drop(buf, n) == SubSeq(buf, n + 1, Len(buf))

\* The n little-endian bytes of v.
RECURSIVE to_le_bytes(_, _)
to_le_bytes(v, n) ==
    IF n = 0 THEN <<>> ELSE <<v % 256>> \o to_le_bytes(v \div 256, n - 1)

\* u32::from_le_bytes of the four bytes of buf from position i.
u32_from_le_bytes(buf, i) ==
    buf[i] + 256 * (buf[i + 1] + 256 * (buf[i + 2] + 256 * buf[i + 3]))

\* u64::from_le_bytes of the eight bytes at the front of buf.
u64_from_le_bytes(buf) ==
    LET low == u32_from_le_bytes(buf, 1)
        high == u32_from_le_bytes(buf, 5)
    IN IF high = 0 THEN low ELSE low + 65536 * (65536 * high)

\* u8
u8_serialize(v) == <<v>>

u8_deserialize(buf) ==
    IF Len(buf) < 1 THEN Fail ELSE Read(buf[1], Drop(buf, 1))

\* u32: the length prefix of a string or a map.
u32_serialize(v) == to_le_bytes(v, 4)

u32_deserialize(buf) ==
    IF Len(buf) < 4 THEN Fail
    ELSE Read(u32_from_le_bytes(buf, 1), Drop(buf, 4))

\* u64 and i64 holding a counter, an id or a timestamp.
u64_serialize(v) == to_le_bytes(v, 8)

u64_deserialize(buf) ==
    IF Len(buf) < 8 THEN Fail
    ELSE Read(u64_from_le_bytes(buf), Drop(buf, 8))

\* u64 holding an amount of v units of 2^62 satoshi: the two top bits of
\* the last byte.
amount_serialize(v) == to_le_bytes(0, 7) \o <<v * 64>>

amount_deserialize(buf) ==
    IF Len(buf) < 8 THEN Fail ELSE Read(buf[8] \div 64, Drop(buf, 8))

\* A u64 value of a map or a field: an amount or a plain number.
value_serialize(v, amounts) ==
    IF amounts THEN amount_serialize(v) ELSE u64_serialize(v)

value_deserialize(buf, amounts) ==
    IF amounts THEN amount_deserialize(buf) ELSE u64_deserialize(buf)

\* bool
bool_serialize(b) == <<IF b THEN 1 ELSE 0>>

bool_deserialize(buf) ==
    IF Len(buf) < 1 THEN Fail
    ELSE IF buf[1] = 0 THEN Read(FALSE, Drop(buf, 1))
    ELSE IF buf[1] = 1 THEN Read(TRUE, Drop(buf, 1))
    ELSE Fail

\* The UTF-8 bytes of the characters that occur in the model's strings.
Utf8 ==
    ("1" :> 49) @@ ("3" :> 51) @@ ("A" :> 65) @@ ("b" :> 98) @@ ("c" :> 99)
    @@ ("d" :> 100)

\* The character of a byte below 128; "?" stands for the characters that
\* do not occur in the model's strings.
Char(byte) ==
    IF \E ch \in DOMAIN Utf8 : Utf8[ch] = byte
    THEN CHOOSE ch \in DOMAIN Utf8 : Utf8[ch] = byte
    ELSE "?"

\* String: a u32 length and the UTF-8 bytes.
String_serialize(s) ==
    u32_serialize(Len(s)) \o [i \in 1..Len(s) |-> Utf8[s[i]]]

\* A byte of 128 or more is not the UTF-8 encoding of a character by
\* itself: the strings of the model are ASCII.
String_deserialize(buf) ==
    LET len == u32_deserialize(buf) IN
    IF ~len.ok THEN Fail
    ELSE IF Len(len.rest) < len.val THEN Fail
    ELSE IF \E i \in 1..len.val : len.rest[i] >= 128 THEN Fail
    ELSE Read([i \in 1..len.val |-> Char(len.rest[i])],
              Drop(len.rest, len.val))

\* The width of a Pubkey in bytes.
PubkeyBytes == 32

\* The bytes of the keys of the model, which are those of new_unique: the
\* first byte a counter and the others zero.
PubkeyValue ==
    [key \in Pubkeys |->
        <<IF key = "A" THEN 1 ELSE 2>> \o [i \in 1..(PubkeyBytes - 1) |-> 0]]

\* Pubkey: 32 raw bytes.
Pubkey_serialize(key) == PubkeyValue[key]

Pubkey_deserialize(buf) ==
    IF Len(buf) < PubkeyBytes THEN Fail
    ELSE Read(CHOOSE key \in Pubkeys :
                  PubkeyValue[key] = SubSeq(buf, 1, PubkeyBytes),
              Drop(buf, PubkeyBytes))

\* Mutant of PoolState_serialize: the phase is written as its 1-based
\* position in the enumeration.
PoolState_serialize_one_based(s) == <<Ordinal(s)>>

\* PoolState, derived: the index of the variant in one byte.
PoolState_serialize(s) == <<Ordinal(s) - 1>>

PoolState_deserialize(buf) ==
    IF Len(buf) < 1 THEN Fail
    ELSE IF buf[1] >= Len(PoolState) THEN Fail
    ELSE Read(PoolState[buf[1] + 1], Drop(buf, 1))

\* PoolParams, derived: the fields in declaration order.
PoolParams_serialize(p) ==
    amount_serialize(p.min_contribution)
    \o amount_serialize(p.max_contribution)
    \o u64_serialize(p.contribution_deadline)
    \o u64_serialize(p.voting_deadline)
    \o amount_serialize(p.proposal_threshold)
    \o amount_serialize(p.voting_threshold)
    \o u8_serialize(p.quorum_percentage)

\* The fields of PoolParams and their types, in declaration order.
PoolParamsFields ==
    << <<"min_contribution", "amount">>, <<"max_contribution", "amount">>,
       <<"contribution_deadline", "i64">>, <<"voting_deadline", "i64">>,
       <<"proposal_threshold", "amount">>, <<"voting_threshold", "amount">>,
       <<"quorum_percentage", "u8">> >>

PoolParams_deserialize(buf) == read_fields(PoolParamsFields, <<>>, buf)

\* impl BorshSerialize for Proposal
Proposal_serialize(p) ==
    u64_serialize(p.id)
    \o Pubkey_serialize(p.proposer)
    \o String_serialize(p.bitcoin_address)
    \o String_serialize(p.description)
    \o u64_serialize(p.votes)

\* The fields read by Proposal::deserialize_reader and their types, in
\* the order they are read.
ProposalFields ==
    << <<"id", "u64">>, <<"proposer", "Pubkey">>,
       <<"bitcoin_address", "String">>, <<"description", "String">>,
       <<"votes", "u64">> >>

\* impl BorshDeserialize for Proposal
Proposal_deserialize(buf) == read_fields(ProposalFields, <<>>, buf)

\* The loop of serialize_pubkey_map over map.iter(), which visits the keys
\* in the sequence order.
RECURSIVE serialize_pubkey_entries(_, _, _)
serialize_pubkey_entries(map, order, amounts) ==
    IF order = <<>> THEN <<>>
    ELSE Pubkey_serialize(Head(order))
         \o value_serialize(map[Head(order)], amounts)
         \o serialize_pubkey_entries(map, Tail(order), amounts)

\* serialize_pubkey_map
serialize_pubkey_map(map, order, amounts) ==
    u32_serialize(Cardinality(DOMAIN map))
    \o serialize_pubkey_entries(map, order, amounts)

\* One turn of the loop of deserialize_pubkey_map: a key and a value.
deserialize_pubkey_entry(buf, amounts) ==
    Only({IF ~key.ok THEN Fail
          ELSE Only({IF ~value.ok THEN Fail
                     ELSE Read(<<key.val, value.val>>, value.rest) :
                     value \in {value_deserialize(key.rest, amounts)}}) :
          key \in {Pubkey_deserialize(buf)}})

\* The loop of deserialize_pubkey_map: len entries are read and inserted.
RECURSIVE deserialize_pubkey_entries(_, _, _, _)
deserialize_pubkey_entries(buf, len, map, amounts) ==
    IF len = 0 THEN Read(map, buf)
    ELSE Only({IF ~entry.ok THEN Fail
               ELSE deserialize_pubkey_entries(
                        entry.rest, len - 1,
                        Insert(map, entry.val[1], entry.val[2]), amounts) :
               entry \in {deserialize_pubkey_entry(buf, amounts)}})

\* deserialize_pubkey_map
deserialize_pubkey_map(buf, amounts) ==
    Only({IF ~len.ok THEN Fail
          ELSE deserialize_pubkey_entries(len.rest, len.val, EmptyMap, amounts) :
          len \in {u32_deserialize(buf)}})

\* The loop of serialize_proposal_map over map.iter().
RECURSIVE serialize_proposal_entries(_, _)
serialize_proposal_entries(map, order) ==
    IF order = <<>> THEN <<>>
    ELSE u64_serialize(Head(order))
         \o Proposal_serialize(map[Head(order)])
         \o serialize_proposal_entries(map, Tail(order))

\* serialize_proposal_map
serialize_proposal_map(map, order) ==
    u32_serialize(Cardinality(DOMAIN map))
    \o serialize_proposal_entries(map, order)

\* One turn of the loop of deserialize_proposal_map: a key and a value.
deserialize_proposal_entry(buf) ==
    Only({IF ~key.ok THEN Fail
          ELSE Only({IF ~value.ok THEN Fail
                     ELSE Read(<<key.val, value.val>>, value.rest) :
                     value \in {Proposal_deserialize(key.rest)}}) :
          key \in {u64_deserialize(buf)}})

\* The loop of deserialize_proposal_map.
RECURSIVE deserialize_proposal_entries(_, _, _)
deserialize_proposal_entries(buf, len, map) ==
    IF len = 0 THEN Read(map, buf)
    ELSE Only({IF ~entry.ok THEN Fail
               ELSE deserialize_proposal_entries(
                        entry.rest, len - 1,
                        Insert(map, entry.val[1], entry.val[2])) :
               entry \in {deserialize_proposal_entry(buf)}})

\* deserialize_proposal_map
deserialize_proposal_map(buf) ==
    Only({IF ~len.ok THEN Fail
          ELSE deserialize_proposal_entries(len.rest, len.val, EmptyMap) :
          len \in {u32_deserialize(buf)}})

\* The iteration orders of the three maps of an aggregate during one
\* serialization.
MapOrders(self) ==
    [contributions : IterationOrders(DOMAIN self.contributions),
     proposals : IterationOrders(DOMAIN self.proposals),
     votes : IterationOrders(DOMAIN self.votes)]

\* impl BorshSerialize for Contract
Contract_serialize(self, orders) ==
    PoolState_serialize(self.state)
    \o (IF self.params # None
        THEN u8_serialize(1) \o PoolParams_serialize(self.params[1])
        ELSE u8_serialize(0))
    \o amount_serialize(self.total_balance)
    \o serialize_pubkey_map(self.contributions, orders.contributions, TRUE)
    \o serialize_proposal_map(self.proposals, orders.proposals)
    \o serialize_pubkey_map(self.votes, orders.votes, FALSE)
    \o u64_serialize(self.next_proposal_id)
    \o (IF self.winning_proposal # None
        THEN u8_serialize(1) \o u64_serialize(self.winning_proposal[1])
        ELSE u8_serialize(0))
    \o bool_serialize(self.transfer_executed)

\* Option<T>: a tag byte 0, or 1 followed by a value of the type.
Option_deserialize(type, buf) ==
    Only({IF ~tag.ok THEN Fail
          ELSE IF tag.val = 0 THEN Read(None, tag.rest)
          ELSE IF tag.val = 1
          THEN Only({IF inner.ok THEN Read(Some(inner.val), inner.rest)
                     ELSE Fail :
                     inner \in {read_value(type, tag.rest)}})
          ELSE Fail :
          tag \in {u8_deserialize(buf)}})

\* T::deserialize for the types of the fields.
read_value(type, buf) ==
    CASE type = "u8" -> u8_deserialize(buf)
      [] type \in {"u64", "i64"} -> u64_deserialize(buf)
      [] type = "amount" -> amount_deserialize(buf)
      [] type = "bool" -> bool_deserialize(buf)
      [] type = "String" -> String_deserialize(buf)
      [] type = "Pubkey" -> Pubkey_deserialize(buf)
      [] type = "PoolState" -> PoolState_deserialize(buf)
      [] type = "PoolParams" -> PoolParams_deserialize(buf)
      [] type = "Option<PoolParams>" -> Option_deserialize("PoolParams", buf)
      [] type = "Option<u64>" -> Option_deserialize("u64", buf)
      [] type = "HashMap<Pubkey, amount>" -> deserialize_pubkey_map(buf, TRUE)
      [] type = "HashMap<Pubkey, u64>" -> deserialize_pubkey_map(buf, FALSE)
      [] type = "HashMap<u64, Proposal>" -> deserialize_proposal_map(buf)

\* The fields of a struct read one after the other, each from the bytes
\* the one before left; the first error ends the reading.
read_fields(fields, acc, buf) ==
    IF fields = <<>> THEN Read(acc, buf)
    ELSE Only({IF ~x.ok THEN Fail
               ELSE read_fields(Tail(fields),
                                acc @@ (Head(fields)[1] :> x.val), x.rest) :
               x \in {read_value(Head(fields)[2], buf)}})

\* The fields read by Contract::deserialize and their types, in the order
\* they are read.
ContractFields ==
    << <<"state", "PoolState">>, <<"params", "Option<PoolParams>">>,
       <<"total_balance", "amount">>,
       <<"contributions", "HashMap<Pubkey, amount>">>,
       <<"proposals", "HashMap<u64, Proposal>">>,
       <<"votes", "HashMap<Pubkey, u64>">>,
       <<"next_proposal_id", "u64">>, <<"winning_proposal", "Option<u64>">>,
       <<"transfer_executed", "bool">> >>

\* impl BorshDeserialize for Contract, deserialize
Contract_deserialize(buf) == read_fields(ContractFields, <<>>, buf)

\* Contract::try_from_slice: deserialize, and an error if bytes are left.
try_from_slice(v) ==
    Only({IF result.ok /\ result.rest = <<>> THEN result ELSE Fail :
          result \in {Contract_deserialize(v)}})

\* contract_account.data.borrow(): the bytes of the contract account,
\* held together with what Contract::try_from_slice makes of them, which
\* is the only use the handlers have for them.
borrow(data) == [bytes |-> data, contract |-> try_from_slice(data)]

(* ------------------------------ dispatch ------------------------------- *)

\* AccountInfo: the key and the owner; the data of the contract account is
\* held apart, in account_data.
AccountInfo(key, owner) == [key |-> key, owner |-> owner]

\* The program id the instructions are dispatched with.
program_id == "program"

\* The account lists of a dispatched instruction: the contract account,
\* the acting account and the payer, complete or cut short, the contract
\* account owned by the program or not.
DispatchAccounts ==
    { <<AccountInfo("contract", program_id), AccountInfo(k, "system"),
        AccountInfo("payer", "system")>> : k \in Pubkeys }
    \cup { <<AccountInfo("contract", "system"), AccountInfo("A", "system"),
             AccountInfo("payer", "system")>>,
           <<AccountInfo("contract", program_id), AccountInfo("A", "system")>>,
           <<AccountInfo("contract", program_id)>>,
           <<>> }

\* ContractInstruction; Undecodable stands for instruction data that
\* try_from_slice rejects.
Instructions ==
    {[tag |-> "InitializePool", params |-> p] : p \in ParamsInputs}
    \cup {[tag |-> "Contribute", amount |-> a] : a \in Amounts}
    \cup {[tag |-> "SubmitProposal", bitcoin_address |-> addr,
           description |-> d] : addr \in Addresses, d \in Descriptions}
    \cup {[tag |-> "CastVote", proposal_id |-> id] : id \in ProposalIds}
    \cup {[tag |-> "ExecuteTransfer"], [tag |-> "EmergencyWithdraw"],
          [tag |-> "Undecodable"]}

\* helper::add_state_transition of src/arch_program: it returns Ok and
\* writes nothing.
add_state_transition(payer, program, state) == "Ok"

\* The outcome of a dispatched instruction: Ok or the ProgramError, the
\* aggregate the handler held in memory when it returned, whether the
\* operation ran, the number of calls of add_state_transition, and the
\* data of the contract account afterwards. No handler assigns the data:
\* each borrows it immutably, as contract_data.
Returned(res, c, ran, transitions, data) ==
    [res |-> res, c |-> c, ran |-> ran, transitions |-> transitions,
     data |-> data]

\* A handler that returned before it ran its operation.
Early(res, data) == Returned(res, Default, FALSE, 0, data)

\* Mutant of process_initialize_pool: data that fails to decode is an
\* error, as in the other handlers.
process_initialize_pool_strict_decode(program, accounts, params, contract_data) ==
    IF Len(accounts) < 2 THEN Early("NotEnoughAccountKeys", contract_data.bytes)
    ELSE LET contract_account == accounts[1]
             payer == accounts[2]
         IN
    IF contract_account.owner # program THEN Early("IncorrectProgramId", contract_data.bytes)
    ELSE LET decoded == contract_data.contract IN
    IF Len(contract_data.bytes) > 0 /\ ~decoded.ok
    THEN Early("InvalidInstructionData", contract_data.bytes)
    ELSE LET loaded == IF Len(contract_data.bytes) > 0 THEN decoded.val
                       ELSE Default
             r == initialize_pool(loaded, params)
         IN
    IF r.res # "Ok" THEN Returned(r.res, r.c, TRUE, 0, contract_data.bytes)
    ELSE Returned(add_state_transition(payer, program, r.c), r.c, TRUE, 1, contract_data.bytes)

\* process_initialize_pool
process_initialize_pool(program, accounts, params, contract_data) ==
    IF Len(accounts) < 2 THEN Early("NotEnoughAccountKeys", contract_data.bytes)
    ELSE LET contract_account == accounts[1]
             payer == accounts[2]
         IN
    IF contract_account.owner # program THEN Early("IncorrectProgramId", contract_data.bytes)
    ELSE LET decoded == contract_data.contract
             loaded == IF Len(contract_data.bytes) > 0
                       THEN IF decoded.ok THEN decoded.val ELSE Default
                       ELSE Default
             r == initialize_pool(loaded, params)
         IN
    IF r.res # "Ok" THEN Returned(r.res, r.c, TRUE, 0, contract_data.bytes)
    ELSE Returned(add_state_transition(payer, program, r.c), r.c, TRUE, 1, contract_data.bytes)

\* Mutant of process_contribute: add_state_transition is called before the
\* result of the operation is looked at.
process_contribute_transition_first(program, accounts, amount, contract_data, t, checks) ==
    IF Len(accounts) < 3 THEN Early("NotEnoughAccountKeys", contract_data.bytes)
    ELSE LET contract_account == accounts[1]
             contributor == accounts[2]
             payer == accounts[3]
         IN
    IF contract_account.owner # program THEN Early("IncorrectProgramId", contract_data.bytes)
    ELSE LET loaded == contract_data.contract IN
    IF ~loaded.ok THEN Early("InvalidInstructionData", contract_data.bytes)
    ELSE LET r == contribute(loaded.val, contributor.key, amount, t, checks) IN
    Returned(r.res, r.c, TRUE, 1, contract_data.bytes)

\* process_contribute
process_contribute(program, accounts, amount, contract_data, t, checks) ==
    IF Len(accounts) < 3 THEN Early("NotEnoughAccountKeys", contract_data.bytes)
    ELSE LET contract_account == accounts[1]
             contributor == accounts[2]
             payer == accounts[3]
         IN
    IF contract_account.owner # program THEN Early("IncorrectProgramId", contract_data.bytes)
    ELSE LET loaded == contract_data.contract IN
    IF ~loaded.ok THEN Early("InvalidInstructionData", contract_data.bytes)
    ELSE LET r == contribute(loaded.val, contributor.key, amount, t, checks) IN
    IF r.res # "Ok" THEN Returned(r.res, r.c, TRUE, 0, contract_data.bytes)
    ELSE Returned(add_state_transition(payer, program, r.c), r.c, TRUE, 1, contract_data.bytes)

\* process_submit_proposal
process_submit_proposal(program, accounts, bitcoin_address, description, contract_data, t1, t2) ==
    IF Len(accounts) < 3 THEN Early("NotEnoughAccountKeys", contract_data.bytes)
    ELSE LET contract_account == accounts[1]
             proposer == accounts[2]
             payer == accounts[3]
         IN
    IF contract_account.owner # program THEN Early("IncorrectProgramId", contract_data.bytes)
    ELSE LET loaded == contract_data.contract IN
    IF ~loaded.ok THEN Early("InvalidInstructionData", contract_data.bytes)
    ELSE LET r == submit_proposal(loaded.val, proposer.key, bitcoin_address,
                                  description, t1, t2) IN
    IF r.res # "Ok" THEN Returned(r.res, r.c, TRUE, 0, contract_data.bytes)
    ELSE Returned(add_state_transition(payer, program, r.c), r.c, TRUE, 1, contract_data.bytes)

\* process_cast_vote
process_cast_vote(program, accounts, proposal_id, contract_data, t) ==
    IF Len(accounts) < 3 THEN Early("NotEnoughAccountKeys", contract_data.bytes)
    ELSE LET contract_account == accounts[1]
             voter == accounts[2]
             payer == accounts[3]
         IN
    IF contract_account.owner # program THEN Early("IncorrectProgramId", contract_data.bytes)
    ELSE LET loaded == contract_data.contract IN
    IF ~loaded.ok THEN Early("InvalidInstructionData", contract_data.bytes)
    ELSE LET r == cast_vote(loaded.val, voter.key, proposal_id, t) IN
    IF r.res # "Ok" THEN Returned(r.res, r.c, TRUE, 0, contract_data.bytes)
    ELSE Returned(add_state_transition(payer, program, r.c), r.c, TRUE, 1, contract_data.bytes)

\* The order in which map.iter() visits the keys present, taken from an
\* order of all proposal ids.
Visited(order, keys) == SelectSeq(order, LAMBDA k : k \in keys)

\* process_execute_transfer; the call of add_state_transition is the one
\* that ends Contract::execute_transfer.
process_execute_transfer(program, accounts, contract_data, t, order) ==
    IF Len(accounts) < 1 THEN Early("NotEnoughAccountKeys", contract_data.bytes)
    ELSE LET contract_account == accounts[1] IN
    IF contract_account.owner # program THEN Early("IncorrectProgramId", contract_data.bytes)
    ELSE LET loaded == contract_data.contract IN
    IF ~loaded.ok THEN Early("InvalidInstructionData", contract_data.bytes)
    ELSE LET r == execute_transfer(loaded.val, accounts, t,
                                   Visited(order, DOMAIN loaded.val.proposals))
         IN
    IF r.res # "Ok" THEN Returned(r.res, r.c, TRUE, 0, contract_data.bytes)
    ELSE Returned("Ok", r.c, TRUE, 1, contract_data.bytes)

\* process_emergency_withdraw
process_emergency_withdraw(program, accounts, contract_data, checks) ==
    IF Len(accounts) < 3 THEN Early("NotEnoughAccountKeys", contract_data.bytes)
    ELSE LET contract_account == accounts[1]
             contributor == accounts[2]
             payer == accounts[3]
         IN
    IF contract_account.owner # program THEN Early("IncorrectProgramId", contract_data.bytes)
    ELSE LET loaded == contract_data.contract IN
    IF ~loaded.ok THEN Early("InvalidInstructionData", contract_data.bytes)
    ELSE LET r == emergency_withdraw(loaded.val, contributor.key, checks) IN
    IF r.res # "Ok" THEN Returned(r.res, r.c, TRUE, 0, contract_data.bytes)
    ELSE Returned(add_state_transition(payer, program, r.c), r.c, TRUE, 1, contract_data.bytes)

\* process_instruction
process_instruction(program, accounts, instruction, contract_data, t1, t2, checks, order) ==
    CASE instruction.tag = "Undecodable" ->
             Early("InvalidInstructionData", contract_data.bytes)
      [] instruction.tag = "InitializePool" ->
             process_initialize_pool(program, accounts, instruction.params,
                                     contract_data)
      [] instruction.tag = "Contribute" ->
             process_contribute(program, accounts, instruction.amount,
                                contract_data,
                                t1, checks)
      [] instruction.tag = "SubmitProposal" ->
             process_submit_proposal(program, accounts,
                                     instruction.bitcoin_address,
                                     instruction.description,
                                     contract_data, t1, t2)
      [] instruction.tag = "CastVote" ->
             process_cast_vote(program, accounts, instruction.proposal_id,
                               contract_data, t1)
      [] instruction.tag = "ExecuteTransfer" ->
             process_execute_transfer(program, accounts, contract_data, t1,
                                      order)
      [] instruction.tag = "EmergencyWithdraw" ->
             process_emergency_withdraw(program, accounts, contract_data,
                                        checks)

(* ------------------------------ actions -------------------------------- *)

\* No instruction was dispatched: whether an operation ran on a loaded
\* aggregate, and the number of calls of add_state_transition.
NotDispatched == [ran |-> FALSE, transitions |-> 0]

Init ==
    /\ contract = Default
    /\ now = 0
    /\ call = [op |-> "none", res |-> "Ok", val |-> 0]
    /\ overflow_checks \in BOOLEAN
    /\ account_data = <<>>
    /\ dispatch = NotDispatched

\* The wall clock advances between calls.
Tick ==
    /\ now < MaxTime
    /\ now' = now + 1
    /\ UNCHANGED <<contract, call, overflow_checks, account_data, dispatch>>

InitializePool ==
    \E params \in ParamsInputs :
        LET r == initialize_pool(contract, params) IN
        /\ contract' = r.c
        /\ call' = [op |-> "initialize_pool", res |-> r.res, val |-> r.val]
        /\ UNCHANGED <<now, overflow_checks, account_data, dispatch>>

Contribute ==
    \E contributor \in Pubkeys, amount \in Amounts :
        LET r == contribute(contract, contributor, amount, now, overflow_checks) IN
        /\ contract' = r.c
        /\ call' = [op |-> "contribute", res |-> r.res, val |-> r.val]
        /\ UNCHANGED <<now, overflow_checks, account_data, dispatch>>

SubmitProposal ==
    \E proposer \in Pubkeys, address \in Addresses, description \in Descriptions,
       t2 \in now .. MaxTime :
        LET r == submit_proposal(contract, proposer, address, description, now, t2) IN
        /\ r.res = "Ok" => contract.next_proposal_id <= MaxProposals
        /\ contract' = r.c
        /\ call' = [op |-> "submit_proposal", res |-> r.res, val |-> r.val]
        /\ now' = t2
        /\ UNCHANGED <<overflow_checks, account_data, dispatch>>

CastVote ==
    \E voter \in Pubkeys, proposal_id \in ProposalIds :
        LET r == cast_vote(contract, voter, proposal_id, now) IN
        /\ contract' = r.c
        /\ call' = [op |-> "cast_vote", res |-> r.res, val |-> r.val]
        /\ UNCHANGED <<now, overflow_checks, account_data, dispatch>>

ExecuteTransfer ==
    \E accounts \in AccountLists,
       order \in IterationOrders(DOMAIN contract.proposals) :
        LET r == execute_transfer(contract, accounts, now, order) IN
        /\ contract' = r.c
        /\ call' = [op |-> "execute_transfer", res |-> r.res, val |-> r.val]
        /\ UNCHANGED <<now, overflow_checks, account_data, dispatch>>

EmergencyWithdraw ==
    \E contributor \in Pubkeys :
        LET r == emergency_withdraw(contract, contributor, overflow_checks) IN
        /\ contract' = r.c
        /\ call' = [op |-> "emergency_withdraw", res |-> r.res, val |-> r.val]
        /\ UNCHANGED <<now, overflow_checks, account_data, dispatch>>

Next ==
    \/ Tick
    \/ InitializePool
    \/ Contribute
    \/ SubmitProposal
    \/ CastVote
    \/ ExecuteTransfer
    \/ EmergencyWithdraw

Spec == Init /\ [][Next]_vars

\* Aggregates as the tests build them before they serialize them into the
\* contract account: by calls of the operations on Contract::default().
SampleContracts ==
    LET c1 == {initialize_pool(c, PoolParams(1, 2, 0, 1, 2, 1, 60)).c :
                   c \in {Default}}
        c2 == {contribute(c, "A", 2, 0, FALSE).c : c \in c1}
        c3 == {contribute(c, "B", 1, 0, FALSE).c : c \in c2}
        c4 == {submit_proposal(c, "A", <<"1", "A">>, <<"d">>, 1, 1).c :
                   c \in c3}
        c5 == {cast_vote(c, "B", 1, 1).c : c \in c4}
        c6 == {cast_vote(c, "A", 1, 1).c : c \in c5}
        c7 == {execute_transfer(c, <<"payer">>, 2, <<1>>).c : c \in c6}
    IN {Default} \cup c1 \cup c2 \cup c3 \cup c4 \cup c5 \cup c6 \cup c7

\* The data a contract account can hold when an instruction is dispatched:
\* nothing, the serialization of an aggregate, or bytes that are none: a
\* phase tag out of range, a serialization cut short or followed by a byte.
SampleData ==
    LET encodings == UNION {{Contract_serialize(c, orders) :
                                 orders \in MapOrders(c)} :
                            c \in SampleContracts}
        some == CHOOSE e \in encodings : Len(e) > 100
    IN encodings
       \cup {<<>>, <<5>>, SubSeq(some, 1, Len(some) - 1), some \o <<0>>}

InitDispatch ==
    /\ contract = Default
    /\ now = 0
    /\ call = [op |-> "none", res |-> "Ok", val |-> 0]
    /\ overflow_checks \in BOOLEAN
    /\ account_data \in SampleData
    /\ dispatch = NotDispatched

\* The second clock reading of an instruction: only submit_proposal reads
\* the clock twice.
Readings(instruction) ==
    IF instruction.tag = "SubmitProposal" THEN now .. MaxTime ELSE {now}

\* The iteration orders of an instruction: only execute_transfer iterates
\* over a map.
Orders(instruction) ==
    IF instruction.tag = "ExecuteTransfer"
    THEN IterationOrders(1..MaxProposals)
    ELSE {<<>>}

\* One instruction is dispatched to process_instruction; contract is the
\* aggregate its handler held in memory when it returned.
Dispatch ==
    \E contract_data \in {borrow(account_data)} :
    \E accounts \in DispatchAccounts, instruction \in Instructions :
        \E t2 \in Readings(instruction), order \in Orders(instruction) :
            LET r == process_instruction(program_id, accounts, instruction,
                                         contract_data, now, t2,
                                         overflow_checks, order)
            IN
            /\ contract' = r.c
            /\ call' = [op |-> instruction.tag, res |-> r.res, val |-> 0]
            /\ dispatch' = [ran |-> r.ran, transitions |-> r.transitions]
            /\ account_data' = r.data
            /\ now' = t2
            /\ UNCHANGED overflow_checks

NextDispatch ==
    \/ Tick
    \/ Dispatch

SpecDispatch == InitDispatch /\ [][NextDispatch]_vars

(* ------------------------------ claims --------------------------------- *)

\* The parameters of an initialized pool.
Params == contract.params[1]

AfterContributionDeadline == now > Params.contribution_deadline

AfterVotingDeadline == now > Params.voting_deadline

\* C1: no call moves the stored phase backward in the order Uninitialized <
\* ContributionPhase < VotingPhase < ExecutionPhase < Completed (the clock of
\* the model never decreases).
C1_PhaseNeverMovesBackward ==
    [][Ordinal(contract'.state) >= Ordinal(contract.state)]_vars

\* The sum of the values of a map with amounts as values.
RECURSIVE SumValues(_)
SumValues(map) ==
    IF DOMAIN map = {} THEN 0
    ELSE LET k == CHOOSE x \in DOMAIN map : TRUE
         IN map[k] + SumValues(Remove(map, k))

\* C2: in every reachable state total_balance equals the sum of all values
\* of the contributions mapping.
C2_BalanceIsSumOfContributions ==
    contract.total_balance = SumValues(contract.contributions)

\* C3: two executions of the same calls with the same arguments and clock
\* readings end in the same aggregate. Every operation but execute_transfer
\* is a function of the aggregate, its arguments and its clock readings, so
\* two such executions agree exactly when, in every reachable state,
\* execute_transfer gives the same outcome whatever order the proposals map
\* is iterated in.
C3_SameCallsSameAggregate ==
    \A accounts \in AccountLists :
        \A o1, o2 \in IterationOrders(DOMAIN contract.proposals) :
            execute_transfer(contract, accounts, now, o1)
                = execute_transfer(contract, accounts, now, o2)

\* C4: a cast_vote by a voter who has a recorded vote, for any proposal id,
\* returns an error and changes neither the votes mapping nor any proposal;
\* while voting is open and the proposal exists the error is AlreadyVoted.
C4_VotedVoterNeverVotesAgain ==
    \A voter \in DOMAIN contract.votes : \A proposal_id \in ProposalIds :
        LET r == cast_vote(contract, voter, proposal_id, now) IN
        /\ r.res \notin {"Ok", "Panic"}
        /\ r.c.votes = contract.votes
        /\ r.c.proposals = contract.proposals
        /\ ( /\ AfterContributionDeadline
             /\ ~AfterVotingDeadline
             /\ proposal_id \in DOMAIN contract.proposals )
           => r.res = "AlreadyVoted"

\* C4 witness: a voter with a recorded vote has voted again and was rejected
\* with AlreadyVoted.
C4_Witness ==
    /\ call.op = "cast_vote"
    /\ call.res = "AlreadyVoted"
    /\ contract.votes # EmptyMap

\* C5: a cast_vote after the voting deadline, on a stored phase of
\* ContributionPhase or VotingPhase, is rejected with VotingPeriodEnded,
\* records no vote and leaves the stored phase at ExecutionPhase.
C5_VoteAfterDeadlineRejected ==
    ( /\ contract.state \in {"ContributionPhase", "VotingPhase"}
      /\ AfterVotingDeadline )
    => \A voter \in Pubkeys : \A proposal_id \in ProposalIds :
           LET r == cast_vote(contract, voter, proposal_id, now) IN
           /\ r.res = "VotingPeriodEnded"
           /\ r.c.votes = contract.votes
           /\ r.c.state = "ExecutionPhase"

\* C6: once an execute_transfer has succeeded, every execute_transfer
\* returns TransferAlreadyExecuted; a successful execute_transfer leaves the
\* transfer marked as executed.
C6_TransferExecutedAtMostOnce ==
    /\ (call.op = "execute_transfer" /\ call.res = "Ok")
       => contract.transfer_executed
    /\ contract.transfer_executed
       => \A accounts \in AccountLists :
              \A order \in IterationOrders(DOMAIN contract.proposals) :
                  execute_transfer(contract, accounts, now, order).res
                      = "TransferAlreadyExecuted"

\* C6 witness: a second execute_transfer was rejected after a successful one.
C6_Witness ==
    /\ contract.transfer_executed
    /\ call.op = "execute_transfer"
    /\ call.res = "TransferAlreadyExecuted"

\* C7: every key of the votes mapping is a key of the contributions mapping
\* with a pledge of at least voting_threshold.
C7_VotersAreQualifiedContributors ==
    \A voter \in DOMAIN contract.votes :
        /\ voter \in DOMAIN contract.contributions
        /\ contract.contributions[voter] >= Params.voting_threshold

\* The parameter records the initialize_pool claims range over.
ParamsSpace ==
    { PoolParams(min, max, cd, vd, pt, vt, q) :
        min \in 0..2, max \in 0..3, cd \in 0..2, vd \in 0..2,
        pt \in {0, 2}, vt \in {0, 1}, q \in {0, 60, 100, 101} }

\* The invariants the specification declares for PoolParams.
DeclaredInvariants(params) ==
    /\ params.min_contribution < params.max_contribution
    /\ params.contribution_deadline < params.voting_deadline
    /\ params.quorum_percentage <= 100

\* C8: on the default aggregate, initialize_pool with parameters satisfying
\* the declared invariants succeeds, stores them and sets the phase to
\* ContributionPhase; once parameters are stored, every initialize_pool
\* returns PoolAlreadyInitialized and changes nothing.
C8_InitializeExactlyOnce ==
    /\ contract = Default
       => \A params \in ParamsSpace :
              DeclaredInvariants(params)
              => LET r == initialize_pool(contract, params) IN
                 /\ r.res = "Ok"
                 /\ r.c.state = "ContributionPhase"
                 /\ r.c.params = Some(params)
    /\ (call.op = "initialize_pool" /\ call.res = "Ok")
       => contract.params # None
    /\ contract.params # None
       => \A params \in ParamsInputs :
              LET r == initialize_pool(contract, params) IN
              /\ r.res = "PoolAlreadyInitialized"
              /\ r.c = contract

\* C8 witness: an initialize_pool was rejected with PoolAlreadyInitialized
\* after the pool had moved on to a later phase.
C8_Witness ==
    /\ call.op = "initialize_pool"
    /\ call.res = "PoolAlreadyInitialized"
    /\ contract.state = "VotingPhase"
    /\ contract.total_balance > 0

\* C9: winning_proposal is present exactly when transfer_executed is true.
C9_WinnerIffExecuted ==
    (contract.winning_proposal # None) <=> contract.transfer_executed

\* C9 witness: a transfer has been executed and the winner is recorded.
C9_Witness ==
    /\ call.op = "execute_transfer"
    /\ call.res = "Ok"
    /\ contract.transfer_executed
    /\ contract.winning_proposal # None

\* C10: after a successful execute_transfer the recorded winner is a stored
\* proposal with at least one vote and at least as many votes as every other
\* proposal; a proposal with strictly more votes than all others is the one
\* recorded.
C10_WinnerHasMostVotes ==
    (call.op = "execute_transfer" /\ call.res = "Ok")
    => /\ contract.winning_proposal # None
       /\ LET w == contract.winning_proposal[1]
              ids == DOMAIN contract.proposals
          IN /\ w \in ids
             /\ contract.proposals[w].votes >= 1
             /\ \A id \in ids :
                    contract.proposals[w].votes >= contract.proposals[id].votes
             /\ \A id \in ids :
                    (\A other \in ids \ {id} :
                        contract.proposals[id].votes
                            > contract.proposals[other].votes)
                    => w = id

\* C10 witness: a transfer was executed with two proposals stored, the
\* second with more votes than the first.
C10_Witness ==
    /\ call.op = "execute_transfer"
    /\ call.res = "Ok"
    /\ DOMAIN contract.proposals = {1, 2}
    /\ contract.proposals[2].votes > contract.proposals[1].votes

\* C11: on an initialized pool, an execute_transfer at a time not past the
\* voting deadline returns VotingPeriodNotEnded and leaves the aggregate
\* unchanged; no execute_transfer succeeds at such a time.
C11_NoTransferBeforeVotingDeadline ==
    /\ (call.op = "execute_transfer" /\ call.res = "Ok") => AfterVotingDeadline
    /\ (contract.params # None /\ ~AfterVotingDeadline)
       => \A accounts \in AccountLists :
              \A order \in IterationOrders(DOMAIN contract.proposals) :
                  LET r == execute_transfer(contract, accounts, now, order) IN
                  /\ r.res = "VotingPeriodNotEnded"
                  /\ r.c = contract

\* C11 witness: an execute_transfer was rejected with VotingPeriodNotEnded
\* on a pool that already has a proposal and a vote.
C11_Witness ==
    /\ call.op = "execute_transfer"
    /\ call.res = "VotingPeriodNotEnded"
    /\ ~AfterVotingDeadline
    /\ contract.votes # EmptyMap

\* The condition under which execute_transfer reaches its quorum check.
ReachesQuorumCheck ==
    /\ contract.params # None
    /\ AfterVotingDeadline
    /\ ~contract.transfer_executed
    /\ DOMAIN contract.proposals # {}
    /\ DOMAIN contract.votes # {}

QuorumMissed ==
    Cardinality(DOMAIN contract.votes) * 100
        < Cardinality(DOMAIN contract.contributions)
            * Params.quorum_percentage

C12_BoundaryWitness ==
    /\ call.op = "execute_transfer"
    /\ call.res = "Ok"
    /\ Cardinality(DOMAIN contract.votes) * 100
           = Cardinality(DOMAIN contract.contributions)
               * Params.quorum_percentage

\* C13: with params present, the voting deadline passed, no transfer
\* executed, a proposal and a vote stored, the quorum met and the host
\* collaborators succeeding (an account is supplied), execute_transfer
\* succeeds and leaves winning_proposal present, transfer_executed true and
\* the phase Completed.
C13_TransferSucceedsWhenDue ==
    (ReachesQuorumCheck /\ ~QuorumMissed)
    => \A order \in IterationOrders(DOMAIN contract.proposals) :
           LET r == execute_transfer(contract, <<"payer">>, now, order) IN
           /\ r.res = "Ok"
           /\ r.c.winning_proposal # None
           /\ r.c.transfer_executed
           /\ r.c.state = "Completed"

\* C13 witness: a transfer was executed on a pool with two contributors.
C13_Witness ==
    /\ call.op = "execute_transfer"
    /\ call.res = "Ok"
    /\ contract.state = "Completed"
    /\ Cardinality(DOMAIN contract.contributions) = 2

\* The aggregate with its phase replaced.
WithPhase(c, phase) == [c EXCEPT !.state = phase]

\* The results of every call of the six operations in the current state
\* that returned an error.
FailedCalls ==
    LET rs ==
          {initialize_pool(contract, p) : p \in ParamsInputs}
          \cup {contribute(contract, k, a, now, overflow_checks) :
                    k \in Pubkeys, a \in Amounts}
          \cup {submit_proposal(contract, k, addr, d, now, t2) :
                    k \in Pubkeys, addr \in Addresses, d \in Descriptions,
                    t2 \in now..MaxTime}
          \cup {cast_vote(contract, k, id, now) :
                    k \in Pubkeys, id \in ProposalIds}
          \cup UNION {{execute_transfer(contract, accounts, now, order) :
                           order \in IterationOrders(DOMAIN contract.proposals)} :
                      accounts \in AccountLists}
          \cup {emergency_withdraw(contract, k, overflow_checks) :
                    k \in Pubkeys}
    IN {r \in rs : r.res \notin {"Ok", "Panic"}}

\* C17: whenever one of the six operations returns an error, every field
\* of the aggregate other than the phase is as before the call.
C17_ErrorChangesOnlyPhase ==
    \A r \in FailedCalls : WithPhase(r.c, contract.state) = contract

\* C17 witness: a call was rejected and changed the phase of a pool that
\* holds pledges.
C17_Witness ==
    /\ call.res \notin {"Ok", "Panic"}
    /\ call.op = "contribute"
    /\ contract.state = "VotingPhase"
    /\ contract.total_balance > 0

\* C18: a failed initialize_pool, execute_transfer or emergency_withdraw
\* leaves the entire aggregate, the phase included, as before the call.
C18_FailureLeavesAggregateUnchanged ==
    /\ \A p \in ParamsInputs :
           LET r == initialize_pool(contract, p) IN
           r.res # "Ok" => r.c = contract
    /\ \A accounts \in AccountLists :
           \A order \in IterationOrders(DOMAIN contract.proposals) :
               LET r == execute_transfer(contract, accounts, now, order) IN
               r.res # "Ok" => r.c = contract
    /\ \A k \in Pubkeys :
           LET r == emergency_withdraw(contract, k, overflow_checks) IN
           r.res \notin {"Ok", "Panic"} => r.c = contract

\* C19: the keys of proposals are exactly 1 .. next_proposal_id - 1, each
\* proposal's id field equals its key, and a rejected submission leaves
\* next_proposal_id and the keys as they were.
C19_ProposalIdsAreDense ==
    /\ DOMAIN contract.proposals = 1..(contract.next_proposal_id - 1)
    /\ \A k \in DOMAIN contract.proposals : contract.proposals[k].id = k
    /\ \A k \in Pubkeys : \A addr \in Addresses : \A d \in Descriptions :
           \A t2 \in now..MaxTime :
               LET r == submit_proposal(contract, k, addr, d, now, t2) IN
               IF r.res = "Ok"
               THEN /\ r.val = contract.next_proposal_id
                    /\ r.c.next_proposal_id = contract.next_proposal_id + 1
                    /\ DOMAIN r.c.proposals
                           = DOMAIN contract.proposals \cup {r.val}
               ELSE /\ r.c.next_proposal_id = contract.next_proposal_id
                    /\ r.c.proposals = contract.proposals

\* C19 witness: a submission was rejected for its address with two
\* proposals stored.
C19_Witness ==
    /\ call.op = "submit_proposal"
    /\ call.res = "InvalidBitcoinAddress"
    /\ DOMAIN contract.proposals = {1, 2}
    /\ contract.next_proposal_id = 3

\* C20: in ContributionPhase before the contribution deadline, contribute
\* returns ContributionTooLow when amount < min_contribution and
\* ContributionTooHigh when amount or existing pledge + amount exceeds
\* max_contribution, each leaving the aggregate unchanged; no stored pledge
\* exceeds max_contribution.
C20_ContributionBoundsEnforced ==
    contract.params # None
    => /\ \A k \in DOMAIN contract.contributions :
              contract.contributions[k] <= Params.max_contribution
       /\ (contract.state = "ContributionPhase" /\ ~AfterContributionDeadline)
          => \A k \in Pubkeys : \A amount \in Amounts :
                 LET r == contribute(contract, k, amount, now, overflow_checks)
                     existing == GetOr0(contract.contributions, k)
                 IN
                 /\ amount < Params.min_contribution
                    => r.res = "ContributionTooLow" /\ r.c = contract
                 /\ (/\ amount >= Params.min_contribution
                     /\ \/ amount > Params.max_contribution
                        \/ existing + amount > Params.max_contribution)
                    => r.res = "ContributionTooHigh" /\ r.c = contract

\* The aggregate the next dispatched instruction loads from the contract
\* account.
Persisted == try_from_slice(account_data)

\* The instructions whose operation runs with the given tag.
Calls(tags) == call.op \in tags /\ dispatch.ran

\* C14: when a dispatched Contribute, SubmitProposal or CastVote was
\* rejected, the phase its operation left, advanced or not, is the phase
\* the next dispatched instruction loads.
C14_AdvancedPhaseIsPersisted ==
    (/\ Calls({"Contribute", "SubmitProposal", "CastVote"})
     /\ call.res \notin {"Ok", "Panic"})
    => /\ Persisted.ok
       /\ Persisted.val.state = contract.state

\* C15: a dispatched instruction that returns an error has made no call of
\* add_state_transition and leaves the data of the contract account as it
\* was; add_state_transition is called only when the operation succeeded.
C15_ErrorNeverPersists ==
    /\ \A contract_data \in {borrow(account_data)} :
       \A accounts \in DispatchAccounts, instruction \in Instructions :
           \A t2 \in Readings(instruction), order \in Orders(instruction) :
               LET r == process_instruction(program_id, accounts, instruction,
                                            contract_data, now, t2,
                                            overflow_checks, order)
               IN
               /\ r.res # "Ok" => r.transitions = 0 /\ r.data = account_data
               /\ r.transitions > 0 => r.ran /\ r.res = "Ok"
    /\ call.res # "Ok" => dispatch.transitions = 0

\* C15 witness: a dispatched Contribute ran, was rejected after changing
\* the phase in memory, and add_state_transition was not called.
C15_Witness ==
    /\ Calls({"Contribute"})
    /\ call.res = "PoolDeadlinePassed"
    /\ dispatch.transitions = 0
    /\ Persisted.ok
    /\ Persisted.val.state # contract.state

\* C16: after a dispatched InitializePool, Contribute, SubmitProposal,
\* CastVote or EmergencyWithdraw succeeded, the data of the contract
\* account decodes to the aggregate the operation produced.
C16_SuccessIsPersisted ==
    (/\ Calls({"InitializePool", "Contribute", "SubmitProposal", "CastVote",
               "EmergencyWithdraw"})
     /\ call.res = "Ok")
    => /\ Persisted.ok
       /\ Persisted.val = contract

\* C21: a successful contribute(contributor, amount) sets the contributor's
\* entry to its previous pledge (0 if absent) plus amount, increases
\* total_balance by exactly amount and leaves every other field and every
\* other contributor's pledge unchanged.
C21_ContributeAddsAmount ==
    \A k \in Pubkeys : \A amount \in Amounts :
        \A r \in {contribute(contract, k, amount, now, overflow_checks)} :
            r.res = "Ok"
            => r.c = [contract EXCEPT
                        !.contributions =
                            Insert(@, k, GetOr0(contract.contributions, k) + amount),
                        !.total_balance = @ + amount]

SubmitProposalChecks ==
    {"InsufficientContributionForProposal", "InvalidBitcoinAddress", "Ok"}

CastVoteChecks ==
    {"InsufficientContributionForVoting", "ProposalNotFound", "AlreadyVoted",
     "Ok"}

\* The clock readings of a call made now that are not past the voting
\* deadline.
WindowReadings == {t \in now..MaxTime : t <= Params.voting_deadline}

\* C23: submit_proposal and cast_vote called with the stored phase
\* ContributionPhase at a time not past the contribution deadline return
\* PoolDeadlinePassed and leave the aggregate unchanged; called after the
\* contribution deadline and not after the voting deadline they leave the
\* phase at VotingPhase and return the result of their remaining checks.
C23_VotingWindowGate ==
    contract.params # None
    => /\ (contract.state = "ContributionPhase" /\ ~AfterContributionDeadline)
          => /\ \A k \in Pubkeys : \A addr \in Addresses :
                    \A d \in Descriptions : \A t2 \in now..MaxTime :
                        \A r \in {submit_proposal(contract, k, addr, d, now, t2)} :
                            r.res = "PoolDeadlinePassed" /\ r.c = contract
             /\ \A k \in Pubkeys : \A id \in ProposalIds :
                    \A r \in {cast_vote(contract, k, id, now)} :
                        r.res = "PoolDeadlinePassed" /\ r.c = contract
       /\ (AfterContributionDeadline /\ ~AfterVotingDeadline)
          => /\ \A k \in Pubkeys : \A addr \in Addresses :
                    \A d \in Descriptions : \A t2 \in WindowReadings :
                        \A r \in {submit_proposal(contract, k, addr, d, now, t2)} :
                            /\ r.res \in SubmitProposalChecks
                            /\ r.c.state = "VotingPhase"
             /\ \A k \in Pubkeys : \A id \in ProposalIds :
                    \A r \in {cast_vote(contract, k, id, now)} :
                        /\ r.res \in CastVoteChecks
                        /\ r.c.state = "VotingPhase"

\* C23 witness: a cast_vote within the voting window went on to its checks
\* on a pool without proposals and left the phase at VotingPhase.
C23_Witness ==
    /\ call.op = "cast_vote"
    /\ call.res = "ProposalNotFound"
    /\ contract.state = "VotingPhase"
    /\ AfterContributionDeadline /\ ~AfterVotingDeadline
    /\ contract.proposals = EmptyMap

\* C24: on an initialized pool, submit_proposal at a time past the voting
\* deadline returns VotingPeriodEnded, leaves the phase at ExecutionPhase
\* and everything else unchanged, whatever the stored phase was; no
\* submit_proposal whose second clock reading is past the voting deadline
\* succeeds or changes the proposals.
C24_NoProposalAfterVotingDeadline ==
    contract.params # None
    => \A k \in Pubkeys : \A addr \in Addresses : \A d \in Descriptions :
           \A t2 \in now..MaxTime :
               \A r \in {submit_proposal(contract, k, addr, d, now, t2)} :
                   /\ AfterVotingDeadline
                      => /\ r.res = "VotingPeriodEnded"
                         /\ r.c = WithPhase(contract, "ExecutionPhase")
                   /\ t2 > Params.voting_deadline
                      => /\ r.res # "Ok"
                         /\ r.c.proposals = contract.proposals

\* C24 witness: a submit_proposal after the voting deadline was rejected on
\* a pool that holds a proposal.
C24_Witness ==
    /\ call.op = "submit_proposal"
    /\ call.res = "VotingPeriodEnded"
    /\ contract.state = "ExecutionPhase"
    /\ AfterVotingDeadline
    /\ contract.proposals # EmptyMap

\* C25: after the contribution deadline and not after the voting deadline,
\* submit_proposal returns InsufficientContributionForProposal when the
\* proposer's pledge is below proposal_threshold, otherwise
\* InvalidBitcoinAddress when the address fails the format check, otherwise
\* Ok; on success it returns the previous next_proposal_id, stores under it
\* a proposal with zero votes and the given proposer, address and
\* description, increments next_proposal_id and leaves the phase at
\* VotingPhase, nothing else changing.
C25_SubmitProposalInWindow ==
    (contract.params # None /\ AfterContributionDeadline /\ ~AfterVotingDeadline)
    => \A k \in Pubkeys : \A addr \in Addresses : \A d \in Descriptions :
           \A t2 \in WindowReadings :
               \A r \in {submit_proposal(contract, k, addr, d, now, t2)} :
                   /\ r.res =
                        IF GetOr0(contract.contributions, k)
                               < Params.proposal_threshold
                        THEN "InsufficientContributionForProposal"
                        ELSE IF ~is_valid_bitcoin_address(addr)
                        THEN "InvalidBitcoinAddress"
                        ELSE "Ok"
                   /\ r.res = "Ok"
                      => /\ r.val = contract.next_proposal_id
                         /\ r.c = [contract EXCEPT
                                     !.state = "VotingPhase",
                                     !.next_proposal_id = @ + 1,
                                     !.proposals =
                                         Insert(@, contract.next_proposal_id,
                                                [id |-> contract.next_proposal_id,
                                                 proposer |-> k,
                                                 bitcoin_address |-> addr,
                                                 description |-> d,
                                                 votes |-> 0])]

\* C25 witness: a second proposal was stored under id 2 with zero votes.
C25_Witness ==
    /\ call.op = "submit_proposal"
    /\ call.res = "Ok"
    /\ call.val = 2
    /\ contract.next_proposal_id = 3
    /\ contract.proposals[2].votes = 0
    /\ contract.state = "VotingPhase"

\* C26: after the contribution deadline and not after the voting deadline,
\* cast_vote returns InsufficientContributionForVoting when the voter's
\* pledge is below voting_threshold, otherwise ProposalNotFound when the id
\* is not stored, otherwise AlreadyVoted when the voter has a recorded
\* vote, otherwise Ok; on success it records votes[voter] = proposal_id and
\* adds exactly one to that proposal's vote count, no other proposal and no
\* other field changing.
C26_CastVoteInWindow ==
    (contract.params # None /\ AfterContributionDeadline /\ ~AfterVotingDeadline)
    => \A k \in Pubkeys : \A id \in ProposalIds :
           \A r \in {cast_vote(contract, k, id, now)} :
               /\ r.res =
                    IF GetOr0(contract.contributions, k) < Params.voting_threshold
                    THEN "InsufficientContributionForVoting"
                    ELSE IF id \notin DOMAIN contract.proposals
                    THEN "ProposalNotFound"
                    ELSE IF k \in DOMAIN contract.votes
                    THEN "AlreadyVoted"
                    ELSE "Ok"
               /\ r.res = "Ok"
                  => r.c = [contract EXCEPT
                              !.votes = Insert(@, k, id),
                              !.proposals[id].votes = @ + 1]

\* C26 witness: a voter with a pledge of two units has voted and the
\* proposal voted for counts one vote.
C26_Witness ==
    /\ call.op = "cast_vote"
    /\ call.res = "Ok"
    /\ ~AfterVotingDeadline
    /\ \E k \in DOMAIN contract.votes :
           /\ GetOr0(contract.contributions, k) = 2
           /\ contract.proposals[contract.votes[k]].votes = 1

\* C27: on an initialized pool after the voting deadline, execute_transfer
\* returns TransferAlreadyExecuted if a transfer was executed, otherwise
\* NoProposalsSubmitted if no proposal is stored, otherwise NoVotesCast if
\* no vote is recorded; with no proposal stored no execute_transfer
\* succeeds at any time, and no executed pool is without proposals.
C27_TransferErrorPrecedence ==
    /\ contract.transfer_executed => contract.proposals # EmptyMap
    /\ contract.params # None
       => \A accounts \in AccountLists :
              \A order \in IterationOrders(DOMAIN contract.proposals) :
                  \A r \in {execute_transfer(contract, accounts, now, order)} :
                      /\ contract.proposals = EmptyMap => r.res # "Ok"
                      /\ AfterVotingDeadline
                         => IF contract.transfer_executed
                            THEN r.res = "TransferAlreadyExecuted"
                            ELSE IF contract.proposals = EmptyMap
                            THEN r.res = "NoProposalsSubmitted"
                            ELSE contract.votes = EmptyMap
                                 => r.res = "NoVotesCast"

\* C27 witness: an execute_transfer after the voting deadline was rejected
\* with NoProposalsSubmitted on a pool that holds pledges.
C27_Witness ==
    /\ call.op = "execute_transfer"
    /\ call.res = "NoProposalsSubmitted"
    /\ AfterVotingDeadline
    /\ contract.proposals = EmptyMap
    /\ contract.contributions # EmptyMap

\* C28: a successful emergency_withdraw(contributor) returns the
\* contributor's whole pledge, removes the contributor's entry, decreases
\* total_balance by that amount and changes nothing else; the same call
\* repeated at once returns ContributorNotFound.
C28_WithdrawReturnsPledge ==
    \A k \in Pubkeys :
        \A r \in {emergency_withdraw(contract, k, overflow_checks)} :
            r.res = "Ok"
            => /\ r.val = contract.contributions[k]
               /\ r.c = [contract EXCEPT
                           !.contributions = Remove(@, k),
                           !.total_balance = @ - contract.contributions[k]]
               /\ emergency_withdraw(r.c, k, overflow_checks).res
                      = "ContributorNotFound"

CallOutcomes ==
    {initialize_pool(contract, p).c : p \in ParamsInputs}
    \cup {contribute(contract, k, a, now, overflow_checks).c :
              k \in Pubkeys, a \in Amounts}
    \cup {submit_proposal(contract, k, addr, d, now, t2).c :
              k \in Pubkeys, addr \in Addresses, d \in Descriptions,
              t2 \in now..MaxTime}
    \cup {cast_vote(contract, k, id, now).c : k \in Pubkeys, id \in ProposalIds}
    \cup UNION {{execute_transfer(contract, accounts, now, order).c :
                     order \in IterationOrders(DOMAIN contract.proposals)} :
                accounts \in AccountLists}
    \cup {emergency_withdraw(contract, k, overflow_checks).c : k \in Pubkeys}

\* C30: params is present exactly when the phase is not Uninitialized, and
\* once params is present no call of any operation changes it.
C30_ParamsPresentAndImmutable ==
    /\ (contract.params # None) <=> (contract.state # "Uninitialized")
    /\ contract.params # None
       => \A c \in CallOutcomes : c.params = contract.params

\* C30 witness: a pool that went through every phase holds the parameters
\* it was initialized with.
C30_Witness ==
    /\ contract.state = "Completed"
    /\ contract.params = Some(PoolParams(1, 2, 0, 1, 2, 1, 60))
    /\ call.op = "execute_transfer"

\* C31: on an Uninitialized aggregate, initialize_pool rejects parameters
\* with min_contribution >= max_contribution (ContributionTooLow),
\* otherwise contribution_deadline >= voting_deadline (PoolDeadlinePassed),
\* otherwise quorum_percentage > 100 (QuorumNotReached); the rejected call
\* leaves the aggregate as it was, phase Uninitialized and params absent,
\* and an initialize_pool with valid parameters after it succeeds.
C31_InvalidParamsRejected ==
    contract.state = "Uninitialized"
    => \A params \in ParamsSpace :
           ~DeclaredInvariants(params)
           => \A r \in {initialize_pool(contract, params)} :
                  /\ r.res =
                       IF params.min_contribution >= params.max_contribution
                       THEN "ContributionTooLow"
                       ELSE IF params.contribution_deadline
                                   >= params.voting_deadline
                       THEN "PoolDeadlinePassed"
                       ELSE "QuorumNotReached"
                  /\ r.c = contract
                  /\ r.c.state = "Uninitialized" /\ r.c.params = None
                  /\ \A valid \in ValidParams :
                         initialize_pool(r.c, valid).res = "Ok"

\* C31 witness: an initialize_pool was rejected for its quorum and the
\* aggregate is still the default one.
C31_Witness ==
    /\ call.op = "initialize_pool"
    /\ call.res = "QuorumNotReached"
    /\ contract = Default

\* C32: a call of submit_proposal decides as if both of its deadline
\* comparisons used the clock value read at its start: whatever the clock
\* does during the call, the result and the aggregate are those of the
\* call with the second reading equal to the first. (contribute, cast_vote
\* and execute_transfer read the clock once.)
C32_OneClockSnapshot ==
    contract.params # None
    => \A k \in Pubkeys : \A addr \in Addresses : \A d \in Descriptions :
           \A t2 \in now..MaxTime :
               submit_proposal(contract, k, addr, d, now, t2)
                   = submit_proposal(contract, k, addr, d, now, now)

\* C33: for the aggregate of every reachable state and every iteration
\* order of its three maps, try_from_slice of the serialization succeeds
\* with no byte left and yields an aggregate equal to the original in
\* every field.
C33_DecodeOfEncodeIsIdentity ==
    \A orders \in MapOrders(contract) :
        \A decoded \in {try_from_slice(Contract_serialize(contract, orders))} :
            /\ decoded.ok
            /\ decoded.val = contract

\* C33 witness: an instruction left an aggregate with two contributors, a
\* proposal, votes and a winning proposal.
C33_Witness ==
    /\ dispatch.ran
    /\ contract.winning_proposal # None
    /\ contract.proposals # EmptyMap
    /\ contract.votes # EmptyMap
    /\ Cardinality(DOMAIN contract.contributions) = 2

\* The account lists that pass the account checks of every handler: three
\* accounts, the contract account owned by the program.
WellFormedAccounts ==
    {accounts \in DispatchAccounts :
         Len(accounts) = 3 /\ accounts[1].owner = program_id}

\* C34: when the data of the contract account is not empty and fails to
\* decode, a dispatched InitializePool that passes the account checks runs
\* initialize_pool on the default aggregate, and succeeds with valid
\* parameters; every other instruction that passes the account checks
\* returns InvalidInstructionData; and whatever the accounts, no other
\* instruction runs its operation, calls add_state_transition or returns Ok.
C34_DecodeFailureHandling ==
    \A contract_data \in {borrow(account_data)} :
        (account_data # <<>> /\ ~contract_data.contract.ok)
        => \A accounts \in DispatchAccounts, instruction \in Instructions :
               \A t2 \in Readings(instruction), order \in Orders(instruction) :
                   \A r \in {process_instruction(program_id, accounts,
                                                 instruction, contract_data, now,
                                                 t2, overflow_checks, order)} :
                       IF instruction.tag = "InitializePool"
                       THEN accounts \in WellFormedAccounts
                            => /\ r.ran
                               /\ r.c = initialize_pool(Default,
                                                        instruction.params).c
                               /\ r.res = initialize_pool(Default,
                                                          instruction.params).res
                               /\ instruction.params \in ValidParams
                                  => r.res = "Ok" /\ r.transitions = 1
                       ELSE /\ ~r.ran /\ r.transitions = 0 /\ r.res # "Ok"
                            /\ accounts \in WellFormedAccounts
                               => r.res = "InvalidInstructionData"

\* C34 witness: an InitializePool dispatched on data that does not decode
\* succeeded on the default aggregate.
C34_Witness ==
    /\ Calls({"InitializePool"})
    /\ call.res = "Ok"
    /\ account_data # <<>>
    /\ ~Persisted.ok
    /\ contract.state = "ContributionPhase"

\* The number of voters whose recorded vote is the proposal id.
VotersOf(id) == Cardinality({k \in DOMAIN contract.votes : contract.votes[k] = id})

\* C35: each proposal's vote count is the number of voters whose entry in
\* votes is that proposal's id, every value of votes is the id of a stored
\* proposal, and the vote counts add up to the size of votes.
C35_VoteCountsMatchVotes ==
    /\ \A id \in DOMAIN contract.proposals :
           contract.proposals[id].votes = VotersOf(id)
    /\ \A k \in DOMAIN contract.votes :
           contract.votes[k] \in DOMAIN contract.proposals
    /\ SumValues([id \in DOMAIN contract.proposals |->
                      contract.proposals[id].votes])
           = Cardinality(DOMAIN contract.votes)

\* C35 witness: two voters have voted for two different proposals.
C35_Witness ==
    /\ Cardinality(DOMAIN contract.votes) = 2
    /\ DOMAIN contract.proposals = {1, 2}
    /\ contract.proposals[1].votes = 1
    /\ contract.proposals[2].votes = 1

\* A pool whose execute_transfer fails for want of proposals, votes or
\* quorum: the voting deadline has passed, the phase is ExecutionPhase and
\* no transfer was executed.
FailedExecution ==
    /\ contract.params # None
    /\ contract.state = "ExecutionPhase"
    /\ ~contract.transfer_executed
    /\ AfterVotingDeadline
    /\ \/ contract.proposals = EmptyMap
       \/ contract.votes = EmptyMap
       \/ QuorumMissed

\* A failed execution is recorded as such: after an execute_transfer that
\* returned QuorumNotReached, NoProposalsSubmitted or NoVotesCast the pool
\* satisfies FailedExecution.
FailureLeavesFailedExecution ==
    (/\ call.op = "execute_transfer"
     /\ call.res \in {"QuorumNotReached", "NoProposalsSubmitted", "NoVotesCast"})
    => FailedExecution

\* A step from a pool in FailedExecution: the aggregate is unchanged, the
\* pool is in FailedExecution again, and a call made in the step was
\* rejected.
FailedExecutionStep ==
    FailedExecution
    => /\ contract' = contract
       /\ FailedExecution'
       /\ call' # call => call'.res \notin {"Ok", "Panic"}

\* C36: after an execute_transfer that failed with QuorumNotReached,
\* NoProposalsSubmitted or NoVotesCast the pool is in a state that no step
\* leaves: every later call of every operation is rejected and changes
\* nothing, so no transfer is executed, nobody withdraws, the phase never
\* becomes Completed and contributions and total_balance stay as they are.
C36_FailedExecutionIsFinal ==
    /\ []FailureLeavesFailedExecution
    /\ [][FailedExecutionStep]_vars

\* C36 witness: a vote was attempted after an execute_transfer had failed
\* for want of quorum, and was rejected.
C36_Witness ==
    /\ call.op = "cast_vote"
    /\ call.res = "VotingPeriodEnded"
    /\ FailedExecution
    /\ contract.votes # EmptyMap

\* An executed pool is past the voting deadline, in Completed or
\* ExecutionPhase.
ExecutedIsPastVoting ==
    contract.transfer_executed
    => /\ contract.state \in {"Completed", "ExecutionPhase"}
       /\ AfterVotingDeadline

\* A step from an executed pool keeps the outcome and the ballot.
ExecutedStep ==
    contract.transfer_executed
    => /\ contract'.winning_proposal = contract.winning_proposal
       /\ contract'.transfer_executed
       /\ contract'.proposals = contract.proposals
       /\ contract'.votes = contract.votes

\* C37: once transfer_executed is true the voting deadline has passed and
\* the phase is Completed or ExecutionPhase, and no step changes
\* winning_proposal, transfer_executed, proposals or votes.
C37_ExecutedOutcomeIsFrozen ==
    /\ []ExecutedIsPastVoting
    /\ [][ExecutedStep]_vars

\* C37 witness: a vote was attempted on an executed pool and rejected.
C37_Witness ==
    /\ call.op = "cast_vote"
    /\ call.res = "VotingPeriodEnded"
    /\ contract.transfer_executed
    /\ contract.winning_proposal # None

\* The phases after ContributionPhase.
PastContributionPhase == {"VotingPhase", "ExecutionPhase", "Completed"}

\* A pool with a proposal or a vote is past ContributionPhase, and in a
\* phase past ContributionPhase no contribute and no emergency_withdraw
\* succeeds.
PledgesClosedPastContributionPhase ==
    /\ (contract.proposals # EmptyMap \/ contract.votes # EmptyMap)
       => contract.state \in PastContributionPhase
    /\ contract.state \in PastContributionPhase
       => \A k \in Pubkeys :
              /\ emergency_withdraw(contract, k, overflow_checks).res # "Ok"
              /\ \A a \in Amounts :
                     contribute(contract, k, a, now, overflow_checks).res
                         # "Ok"

\* A step changes contributions or total_balance only from
\* ContributionPhase, and leaves a phase past ContributionPhase past it.
PledgesStep ==
    /\ (\/ contract'.contributions # contract.contributions
        \/ contract'.total_balance # contract.total_balance)
       => contract.state = "ContributionPhase"
    /\ contract.state \in PastContributionPhase
       => contract'.state \in PastContributionPhase

C39_PhaseNeverAheadOfClock ==
    contract.params # None
    => /\ contract.state = "VotingPhase" => AfterContributionDeadline
       /\ contract.state \in {"ExecutionPhase", "Completed"}
          => AfterVotingDeadline
       /\ (contract.proposals # EmptyMap \/ contract.votes # EmptyMap)
          => AfterContributionDeadline
       /\ ~AfterContributionDeadline
          => /\ \A k \in Pubkeys : \A addr \in Addresses :
                    \A d \in Descriptions : \A t2 \in now..MaxTime :
                        submit_proposal(contract, k, addr, d, now, t2).res
                            # "Ok"
             /\ \A k \in Pubkeys : \A id \in ProposalIds :
                    cast_vote(contract, k, id, now).res # "Ok"

\* C39 witness: the phase is VotingPhase, with a proposal and a vote, at
\* the first time past the contribution deadline.
C39_Witness ==
    /\ contract.state = "VotingPhase"
    /\ now = Params.contribution_deadline + 1
    /\ contract.proposals # EmptyMap
    /\ contract.votes # EmptyMap

\* C40: no arithmetic of contribute or emergency_withdraw overflows: in
\* every reachable state, for every contributor and amount, the additions
\* existing pledge + amount and total_balance + amount stay below 2^64 and
\* the subtraction total_balance - pledge stays at or above 0, that is, no
\* call panics in a build with overflow checks.
C40_NoArithmeticWraps ==
    \A k \in Pubkeys :
        /\ emergency_withdraw(contract, k, TRUE).res # "Panic"
        /\ \A a \in Amounts : contribute(contract, k, a, now, TRUE).res # "Panic"

====
